---- MODULE Spec2Model ----
(***************************************************************************)
(* A model of the DSP primitives of the plugin suite:                      *)
(*   - the polyphonic voice pool of TestBedSynth (Note, ADSREnvelope,      *)
(*     DSPCore::noteOn / noteOff / processSample / process, the transition *)
(*     buffer and the MIDI note queue),                                    *)
(*   - the fractional delay line and the adaptive notch of                 *)
(*     DoubleLoopCymbal,                                                   *)
(*   - the nonlinear stage of FoldShaper.                                  *)
(* Sample values are fixed-point integers; every scale is a definition.    *)
(***************************************************************************)
EXTENDS Integers, Sequences, FiniteSets, TLC

\* ------------------------------------------------------------------------
\* Bounds of the voice-pool model.
\* ------------------------------------------------------------------------
MaxVoice == 2      \* size of the pool `notes` (maxVoice)
MaxNoteId == 2     \* note ids are 0..MaxNoteId
MaxTrSize == 2     \* largest transitionBuffer.size() that setup() creates
MaxAttack == 2     \* largest attack length in samples passed to noteOn
MaxVelocity == 1   \* velocities (after velocityMap) are 1..MaxVelocity
EnvOne == 2        \* the fixed-point value of envelope level 1.0
SustainAmp == 1    \* info.gainSustainAmplitude, in units of 1/EnvOne
KpDen == 2         \* the smoothing coefficients atkKp = decKp = relKp = 1/KpDen
EnvEps == 0        \* numeric_limits<float>::epsilon() on the fixed-point grid
SizeTMod == 65536  \* size_t arithmetic is modulo this (any modulus above the sizes)
MaxLength == 2     \* longest block given to process()
MaxQueue == 2      \* most note events pending at once

Voices == 0 .. (MaxVoice - 1)
NoteIds == 0 .. MaxNoteId

Abs(x) == IF x < 0 THEN -x ELSE x
Min(a, b) == IF a < b THEN a ELSE b
Max(a, b) == IF a < b THEN b ELSE a

\* x / d rounded away from zero: a floating-point smoother always moves
\* towards its target while the distance is above the resolution.
DivAway(x, d) == IF x >= 0 THEN (x + d - 1) \div d ELSE -((-x + d - 1) \div d)

VARIABLES
  notes,             \* [Voices -> Note]
  nVoice,            \* number of voices noteOn may use
  isTransitioning, trIndex, trStop,
  transitionBuffer,  \* [0 .. size-1 -> sample]
  midiNotes,         \* pending note events
  pc, frameIdx, length,   \* position inside DSPCore::process
  out,               \* the frame written by the last processSample
  last,              \* the last operation (history)
  sinceFill,         \* processSample calls played since the last fill (history)
  dBuf, dWptr,       \* DoubleLoopCymbal Delay: buf and wptr
  dLast,             \* the last Delay call and what it computed (history)
  dHist,             \* the inputs written since the last reset, newest first (history)
  alpha, v1, v2,     \* AdaptiveNotchCPZ
  nLast,             \* the last AdaptiveNotchCPZ call (history)
  foldGain, foldMultiply, foldHardclip,   \* FoldShaper: gain, multiply, hardclip
  fLast,             \* the last FoldShaper::process call and its result
  foldFilters,       \* FoldShaper: inputs held by upSampler, lowpass, halfbandIir
  latencyRet,        \* the value of the last FoldShaper::latency call (history)
  svf,               \* GrowlSynth SVF: s1, s2
  svfHighpass,       \* GrowlSynth SVFHighpass: s1, s2 and the smoothers g, d, k
  filtLast,          \* the last SVF / SVFHighpass call (history)
  expDSR,            \* DoubleLoopCymbal ExpDSREnvelope
  eLast,             \* the last ExpDSREnvelope call (history)
  serialAllpass,     \* DoubleLoopCymbal SerialAllpass
  apLast,            \* the last SerialAllpass call (history)
  white,             \* EnvelopedSine White16: [Gens -> generator]
  wLast,             \* the last White16 call (history)
  gdBuf, gdWptr,     \* GrowlSynth Delay: buf and wptr
  gdLast,            \* the last GrowlSynth Delay call and what it computed (history)
  gdHist,            \* the inputs written since the last reset, newest first (history)
  adsr,              \* TestBedSynth ADSREnvelope on its own
  aLast,             \* the last ADSREnvelope call (history)
  limiterValue,      \* GrowlSynth ImmediateRateLimiter: value
  rLast              \* the last ImmediateRateLimiter call and the run it is in (history)

delayVars == <<dBuf, dWptr, dLast, dHist>>
notchVars == <<alpha, v1, v2, nLast>>
foldVars == <<foldGain, foldMultiply, foldHardclip, fLast, foldFilters, latencyRet>>
filterVars == <<svf, svfHighpass, filtLast>>
expEnvVars == <<expDSR, eLast>>
allpassVars == <<serialAllpass, apLast>>
noiseVars == <<white, wLast>>
lerpDelayVars == <<gdBuf, gdWptr, gdLast, gdHist>>
adsrVars == <<adsr, aLast>>
limiterVars == <<limiterValue, rLast>>
unitVars == <<delayVars, notchVars, foldVars, filterVars, expEnvVars, allpassVars, noiseVars, lerpDelayVars, adsrVars, limiterVars>>
coreVars == <<notes, nVoice, isTransitioning, trIndex, trStop, transitionBuffer>>
blockVars == <<midiNotes, pc, frameIdx, length>>
vars == <<notes, nVoice, isTransitioning, trIndex, trStop, transitionBuffer,
          midiNotes, pc, frameIdx, length, out, last, sinceFill, unitVars>>

poolVars == <<notes, nVoice, isTransitioning, trIndex, trStop, transitionBuffer,
              midiNotes, pc, frameIdx, length, out, last, sinceFill>>

\* What an operation of one unit leaves unchanged: the pool and the other units.
exceptDelay == <<poolVars, notchVars, foldVars, filterVars, expEnvVars, allpassVars, noiseVars, lerpDelayVars, adsrVars, limiterVars>>
exceptNotch == <<poolVars, delayVars, foldVars, filterVars, expEnvVars, allpassVars, noiseVars, lerpDelayVars, adsrVars, limiterVars>>
exceptFold == <<poolVars, delayVars, notchVars, filterVars, expEnvVars, allpassVars, noiseVars, lerpDelayVars, adsrVars, limiterVars>>
exceptFilter == <<poolVars, delayVars, notchVars, foldVars, expEnvVars, allpassVars, noiseVars, lerpDelayVars, adsrVars, limiterVars>>
exceptExpEnv == <<poolVars, delayVars, notchVars, foldVars, filterVars, allpassVars, noiseVars, lerpDelayVars, adsrVars, limiterVars>>
exceptAllpass == <<poolVars, delayVars, notchVars, foldVars, filterVars, expEnvVars, noiseVars, lerpDelayVars, adsrVars, limiterVars>>
exceptNoise == <<poolVars, delayVars, notchVars, foldVars, filterVars, expEnvVars, allpassVars, lerpDelayVars, adsrVars, limiterVars>>
exceptLerpDelay == <<poolVars, delayVars, notchVars, foldVars, filterVars, expEnvVars, allpassVars, noiseVars, adsrVars, limiterVars>>
exceptAdsr == <<poolVars, delayVars, notchVars, foldVars, filterVars, expEnvVars, allpassVars, noiseVars, lerpDelayVars, limiterVars>>
exceptLimiter == <<poolVars, delayVars, notchVars, foldVars, filterVars, expEnvVars, allpassVars, noiseVars, lerpDelayVars, adsrVars>>

\* ------------------------------------------------------------------------
\* DoubleEMAFilter (common/dsp/smoother.hpp): v1 += kp (in - v1);
\* v2 += kp (v1 - v2); the output is v2.
\* ------------------------------------------------------------------------
SmootherReset(env) == [env EXCEPT !.v1 = 0, !.v2 = 0]

SmootherProcessKp(env, input) ==
  LET a == env.v1 + DivAway(input - env.v1, KpDen)
      b == env.v2 + DivAway(a - env.v2, KpDen)
  IN [env EXCEPT !.v1 = a, !.v2 = b]

\* ------------------------------------------------------------------------
\* ADSREnvelope
\* ------------------------------------------------------------------------
EnvInit == [state |-> "terminated", attackLength |-> 0, counter |-> 0, v1 |-> 0, v2 |-> 0]

EnvReset(env) == SmootherReset([env EXCEPT !.state = "terminated"])

EnvNoteOn(env, attackSamples) ==
  SmootherReset([env EXCEPT !.state = "attack", !.attackLength = attackSamples,
                            !.counter = 0])

EnvNoteOff(env) == [env EXCEPT !.state = "release"]

\* min(counter / (attackLength / 2), 1): the divisor is an integer division,
\* and a zero divisor makes the ramp +infinity (counter >= 1 here).
AttackRamp(counter, attackLength) ==
  LET half == attackLength \div 2
  IN IF half = 0 THEN EnvOne ELSE Min((counter * EnvOne) \div half, EnvOne)

\* (mutant) process that leaves attack one call late.
EnvProcessLateDecay(env) ==
  CASE env.state = "attack" ->
         LET c == env.counter + 1
             e == [env EXCEPT !.counter = c,
                              !.state = IF c > env.attackLength THEN "decay" ELSE "attack"]
         IN SmootherProcessKp(e, AttackRamp(c, env.attackLength))
    [] env.state = "decay" -> SmootherProcessKp(env, SustainAmp)
    [] env.state = "release" ->
         LET e == IF env.v2 <= EnvEps
                  THEN SmootherReset([env EXCEPT !.state = "terminated"])
                  ELSE env
         IN SmootherProcessKp(e, 0)
    [] OTHER -> env

EnvProcess(env) ==
  CASE env.state = "attack" ->
         LET c == env.counter + 1
             e == [env EXCEPT !.counter = c,
                              !.state = IF c >= env.attackLength THEN "decay" ELSE "attack"]
         IN SmootherProcessKp(e, AttackRamp(c, env.attackLength))
    [] env.state = "decay" -> SmootherProcessKp(env, SustainAmp)
    [] env.state = "release" ->
         LET e == IF env.v2 <= EnvEps
                  THEN SmootherReset([env EXCEPT !.state = "terminated"])
                  ELSE env
         IN SmootherProcessKp(e, 0)
    [] OTHER -> env

\* ------------------------------------------------------------------------
\* Note
\* ------------------------------------------------------------------------
NoteInit == [state |-> "rest", id |-> -1, velocity |-> 0, gainEnvelope |-> EnvInit]

NoteNoteOn(note, noteId, velocity, attackSamples) ==
  [note EXCEPT !.state = "active", !.id = noteId, !.velocity = velocity,
               !.gainEnvelope = EnvNoteOn(note.gainEnvelope, attackSamples)]

\* (mutant) noteOff that releases the envelope and leaves the voice active.
NoteNoteOffEnvelopeOnly(note) ==
  IF note.state = "rest" THEN note
  ELSE [note EXCEPT !.gainEnvelope = EnvNoteOff(note.gainEnvelope)]

\* (mutant) noteOff without the test for a voice at rest.
NoteNoteOffAlways(note) ==
  [note EXCEPT !.state = "release", !.gainEnvelope = EnvNoteOff(note.gainEnvelope)]

NoteNoteOff(note) ==
  IF note.state = "rest" THEN note
  ELSE [note EXCEPT !.state = "release", !.gainEnvelope = EnvNoteOff(note.gainEnvelope)]

NoteRest(note) == [note EXCEPT !.state = "rest", !.id = -1]

\* (mutant) reset that clears the envelope and does not put the voice to rest.
NoteResetEnvelopeOnly(note) == [note EXCEPT !.gainEnvelope = EnvReset(note.gainEnvelope)]

NoteReset(note) ==
  LET n == NoteRest(note) IN [n EXCEPT !.gainEnvelope = EnvReset(n.gainEnvelope)]

isAttacking(note) == note.gainEnvelope.state = "attack"

getGain(note) == note.velocity * note.gainEnvelope.v2

\* (mutant) process that never puts the voice to rest.
NoteProcessKeepState(note) ==
  IF note.state = "rest" THEN note
  ELSE [note EXCEPT !.gainEnvelope = EnvProcess(note.gainEnvelope)]

\* The note after Note::process ...
NoteProcess(note) ==
  IF note.state = "rest" THEN note
  ELSE LET e == EnvProcess(note.gainEnvelope)
       IN IF e.state = "terminated"
          THEN [note EXCEPT !.state = "rest", !.gainEnvelope = e]
          ELSE [note EXCEPT !.gainEnvelope = e]

\* ... and the sample it returns. Samples are abstracted to their level:
\* 0 is exact silence, 1 is some signal (the oscillator mix is taken as
\* non-zero, so the sample is silent exactly when the gain is zero).
Level(x) == IF x = 0 THEN 0 ELSE 1

Mix(a, b) == IF a = 0 /\ b = 0 THEN 0 ELSE 1

NoteProcessOut(note) ==
  LET n == NoteProcess(note)
  IN IF note.state = "rest" \/ n.state = "rest" THEN 0 ELSE Level(getGain(n))

\* ------------------------------------------------------------------------
\* DSPCore: voice allocation and the transition buffer
\* ------------------------------------------------------------------------
Silence(size) == [k \in 1 .. size |-> 0]

\* The comparator handed to std::sort in noteOn.
SortLess(ns, lhs, rhs) == ~isAttacking(ns[lhs]) /\ getGain(ns[lhs]) < getGain(ns[rhs])

\* std::sort of voiceIndices = 0 .. n-1. The comparator is no strict weak
\* ordering (an attacking voice is equivalent to every voice it is compared
\* with), so the order is whatever the library's algorithm leaves. Ranges
\* this small are sorted by insertion: libstdc++ and the MSVC library move an
\* element that compares less than the first one to the front and otherwise
\* scan back from the end; libc++ only scans back from the end.
RECURSIVE BackScan(_, _, _, _)
BackScan(ns, sorted, x, pos) ==
  IF pos = 0 THEN 0
  ELSE IF SortLess(ns, x, sorted[pos]) THEN BackScan(ns, sorted, x, pos - 1) ELSE pos

InsertAfter(sorted, x, k) ==
  SubSeq(sorted, 1, k) \o <<x>> \o SubSeq(sorted, k + 1, Len(sorted))

InsertSorted(ns, sorted, x, frontCheck) ==
  IF frontCheck /\ sorted # <<>> /\ SortLess(ns, x, sorted[1])
  THEN <<x>> \o sorted
  ELSE InsertAfter(sorted, x, BackScan(ns, sorted, x, Len(sorted)))

RECURSIVE InsertionSort(_, _, _, _, _)
InsertionSort(ns, n, i, sorted, frontCheck) ==
  IF i >= n THEN sorted
  ELSE InsertionSort(ns, n, i + 1, InsertSorted(ns, sorted, i, frontCheck), frontCheck)

SortOutcomes(ns, n) ==
  {InsertionSort(ns, n, 0, <<>>, TRUE), InsertionSort(ns, n, 0, <<>>, FALSE)}

\* The first loop of noteOn: the lowest index below nVoice whose voice holds
\* noteId or is at rest; -1 when there is none.
\* (mutant) the pick-up loop scanning from the last voice down.
PickRestingFromLast(ns, n, noteId) ==
  LET hits == {v \in 0 .. (n - 1) : ns[v].id = noteId \/ ns[v].state = "rest"}
  IN IF hits = {} THEN -1 ELSE CHOOSE v \in hits : \A w \in hits : v >= w

PickResting(ns, n, noteId) ==
  LET hits == {v \in 0 .. (n - 1) : ns[v].id = noteId \/ ns[v].state = "rest"}
  IN IF hits = {} THEN -1 ELSE CHOOSE v \in hits : \A w \in hits : v <= w

\* (mutant) trStop = trIndex - 1 without the correction of the wrap-around.
TrStopNoWrap(idx, size) == (idx - 1) % SizeTMod

\* trStop = trIndex - 1 on size_t, brought back into the buffer.
TrStopAfterFill(idx, size) ==
  LET s == (idx - 1) % SizeTMod
  IN IF s >= size THEN (s + size) % SizeTMod ELSE s

RECURSIVE FillLoop(_, _, _, _)
FillLoop(note, buf, start, bufIdx) ==
  IF bufIdx >= Len(buf) THEN buf
  ELSE LET idx == (start + bufIdx) % Len(buf)
           o == NoteProcessOut(note)
       IN FillLoop(NoteProcess(note),
                   [buf EXCEPT ![idx + 1] = Mix(@, o)], start, bufIdx + 1)

\* fillTransitionBuffer(noteIndex) as the new <<isTransitioning, trStop, buffer>>.
fillTransitionBuffer(ns, noteIndex, trans, idx, stop, buf) ==
  IF ns[noteIndex].state = "rest" THEN <<trans, stop, buf>>
  ELSE <<TRUE, TrStopAfterFill(idx, Len(buf)), FillLoop(ns[noteIndex], buf, idx, 0)>>

\* DSPCore::noteOn
DSPNoteOn(noteId, velocity) ==
  \E attackSamples \in 0 .. MaxAttack :
    LET picked == PickResting(notes, nVoice, noteId)
    IN IF picked # -1
       THEN /\ notes' = [notes EXCEPT ![picked] = NoteNoteOn(@, noteId, velocity, attackSamples)]
            /\ UNCHANGED <<nVoice, isTransitioning, trIndex, trStop, transitionBuffer>>
            /\ last' = [op |-> "noteOn", index |-> picked, steal |-> FALSE]
            /\ UNCHANGED sinceFill
       ELSE \E order \in SortOutcomes(notes, nVoice) :
              LET victim == order[1]
                  f == fillTransitionBuffer(notes, victim, isTransitioning, trIndex,
                                            trStop, transitionBuffer)
              IN /\ isTransitioning' = f[1]
                 /\ trStop' = f[2]
                 /\ transitionBuffer' = f[3]
                 /\ notes' = [notes EXCEPT ![victim] = NoteNoteOn(@, noteId, velocity, attackSamples)]
                 /\ UNCHANGED <<nVoice, trIndex>>
                 /\ last' = [op |-> "noteOn", index |-> victim, steal |-> TRUE]
                 /\ sinceFill' = IF notes[victim].state = "rest" THEN sinceFill ELSE 0

\* DSPCore::noteOff
DSPNoteOff(noteId) ==
  /\ notes' = [v \in Voices |-> IF notes[v].id = noteId THEN NoteNoteOff(notes[v]) ELSE notes[v]]
  /\ UNCHANGED <<nVoice, isTransitioning, trIndex, trStop, transitionBuffer>>
  /\ last' = [op |-> "noteOff", index |-> -1, steal |-> FALSE]
  /\ UNCHANGED sinceFill

\* The sum of the voices in processSample.
RECURSIVE VoiceSum(_, _)
VoiceSum(ns, v) ==
  IF v >= MaxVoice THEN 0 ELSE Mix(NoteProcessOut(ns[v]), VoiceSum(ns, v + 1))

\* DSPCore::processSample (the frame before the DC highpass and master gain).
DSPProcessSample ==
  /\ notes' = [v \in Voices |-> NoteProcess(notes[v])]
  /\ IF isTransitioning
     THEN LET next == (trIndex + 1) % Len(transitionBuffer)
          IN /\ out' = Mix(VoiceSum(notes, 0), transitionBuffer[trIndex + 1])
             /\ transitionBuffer' = [transitionBuffer EXCEPT ![trIndex + 1] = 0]
             /\ trIndex' = next
             /\ isTransitioning' = (next # trStop)
             /\ sinceFill' = sinceFill + 1
     ELSE /\ out' = VoiceSum(notes, 0)
          /\ UNCHANGED <<transitionBuffer, trIndex, isTransitioning, sinceFill>>
  /\ UNCHANGED <<nVoice, trStop>>
  /\ last' = [op |-> "processSample", index |-> -1, steal |-> FALSE]

\* DSPCore::reset (nVoice is read from the parameter store).
DSPReset(size, n) ==
  /\ notes' = [v \in Voices |-> NoteReset(notes[v])]
  /\ nVoice' = n
  /\ transitionBuffer' = Silence(size)
  /\ isTransitioning' = FALSE
  /\ trIndex' = 0
  /\ trStop' = 0
  /\ sinceFill' = 0

\* ------------------------------------------------------------------------
\* DoubleLoopCymbal Delay. Times are fixed-point with TimeDen steps per
\* sample; stored samples are integers; an output is the interpolated value
\* times OutScale.
\* ------------------------------------------------------------------------
TimeDen == 2        \* resolution of timeInSamples and maxTimeSamples
MaxDelayTime == 2   \* largest maxTimeSamples given to setup (in samples)
MaxSample == 1      \* inputs are 0 .. MaxSample

OutScale == 6 * TimeDen * TimeDen * TimeDen

DelayTimes == (0 - TimeDen) .. ((MaxDelayTime + 6) * TimeDen)

\* Sample -> int and Sample -> size_t truncate towards zero.
Trunc(q) == IF q >= 0 THEN q \div TimeDen ELSE -((-q) \div TimeDen)

\* std::clamp(v, lo, hi). With hi < lo the call is undefined; the library
\* returns what its two comparisons give: libstdc++ and libc++ test v < lo
\* first, the MSVC library tests hi < v first.
ClampLoFirst(v, lo, hi) == IF v < lo THEN lo ELSE IF hi < v THEN hi ELSE v

ClampHiFirst(v, lo, hi) == IF hi < v THEN hi ELSE IF v < lo THEN lo ELSE v

StdClamp(v, lo, hi) == {ClampLoFirst(v, lo, hi), ClampHiFirst(v, lo, hi)}

\* lagrange3Interp(y0, y1, y2, y3, t) with t = f / TimeDen, times OutScale.
lagrange3Interp(y0, y1, y2, y3, f) ==
  LET D == TimeDen
      U == D + f
      d0 == y0 - y1
      d1 == d0 - (y1 - y2)
      d2 == d1 - ((y1 - y2) - (y2 - y3))
  IN OutScale * y0 - U * (6 * D * D * d0 + (D - U) * (3 * D * d1 + (2 * D - U) * d2))

\* (mutant) the read position taken as timeInSamples, not timeInSamples - 1.
ReadPositionNoOffset(timeQ) == timeQ

\* timeInSamples - Sample(1)
ReadPosition(timeQ) == timeQ - TimeDen

\* rptr < 0 ? rptr + size : rptr
WrapRead(rptr, size) == IF rptr < 0 THEN rptr + size ELSE rptr

\* buf[rptr]: a read outside the vector is undefined and may give anything.
ReadOutcomes(buf, rptr) ==
  IF rptr >= 0 /\ rptr < Len(buf) THEN {buf[rptr + 1]} ELSE 0 .. MaxSample

\* buf.resize(std::max(size_t(4), size_t(maxTimeSamples) + 4)); reset();
DelayCapacity(maxTimeQ) == Max(4, Trunc(maxTimeQ) + 4)

DelayLastNone(name) ==
  [op |-> name, time |-> 0, input |-> 0, pos |-> 0, timeInt |-> 0, fraction |-> 0,
   rptr |-> <<0, 0, 0, 0>>, out |-> 0]

\* The Delay after construction.
InitDelay ==
  /\ dBuf = <<0, 0>>
  /\ dWptr = 0
  /\ dLast = DelayLastNone("construct")
  /\ dHist = <<>>

DelaySetup ==
  /\ UNCHANGED exceptDelay
  /\ dHist' = <<>>
  /\ \E maxTimeQ \in 0 .. (MaxDelayTime * TimeDen) :
       dBuf' = [k \in 1 .. DelayCapacity(maxTimeQ) |-> 0]
  /\ dLast' = DelayLastNone("setup")
  /\ UNCHANGED dWptr

DelayReset ==
  /\ UNCHANGED exceptDelay
  /\ dHist' = <<>>
  /\ dLast.op # "construct"
  /\ dBuf' = [k \in 1 .. Len(dBuf) |-> 0]
  /\ dLast' = DelayLastNone("reset")
  /\ UNCHANGED dWptr

\* Delay::process(input, timeInSamples), called after setup.
DelayProcess ==
  /\ UNCHANGED exceptDelay
  /\ dLast.op # "construct"
  /\ \E input \in 0 .. MaxSample, timeQ \in DelayTimes :
       LET size == Len(dBuf)
       IN \E pos \in StdClamp(ReadPosition(timeQ), TimeDen, (size - 4) * TimeDen) :
            LET clamped == Trunc(pos)            \* const int clamped = std::clamp(...)
                timeInt == clamped               \* int(clamped)
                rFraction == clamped * TimeDen - timeInt * TimeDen
                w == IF dWptr + 1 >= size THEN 0 ELSE dWptr + 1
                b == [dBuf EXCEPT ![w + 1] = input]
                rptr0 == w - timeInt
                r == <<WrapRead(rptr0, size), WrapRead(rptr0 - 1, size),
                       WrapRead(rptr0 - 2, size), WrapRead(rptr0 - 3, size)>>
            IN \E y0 \in ReadOutcomes(b, r[1]), y1 \in ReadOutcomes(b, r[2]),
                  y2 \in ReadOutcomes(b, r[3]), y3 \in ReadOutcomes(b, r[4]) :
                 /\ dWptr' = w
                 /\ dHist' = SubSeq(<<input>> \o dHist, 1,
                                    Min(Len(dHist) + 1, MaxDelayTime + 4))
                 /\ dBuf' = b
                 /\ dLast' = [op |-> "process", time |-> timeQ, input |-> input,
                              pos |-> pos, timeInt |-> timeInt, fraction |-> rFraction,
                              rptr |-> r,
                              out |-> lagrange3Interp(y0, y1, y2, y3, rFraction)]

\* ------------------------------------------------------------------------
\* Floating-point samples of AdaptiveNotchCPZ and FoldShaper: a finite value
\* q / FDen with |q| <= FMax, an infinity with its sign, or NaN. A finite
\* result is rounded towards zero onto the grid and overflows to infinity
\* beyond FMax. Comparisons with NaN are false.
\* ------------------------------------------------------------------------
FDen == 2           \* grid steps per 1.0
FMax == 8192        \* largest finite magnitude, in grid steps

Fin(q) == [k |-> "fin", q |-> q]

Inf(s) == [k |-> "inf", q |-> s]

NaN == [k |-> "nan", q |-> 0]

FOne == Fin(FDen)

isnan(a) == a.k = "nan"

isfinite(a) == a.k = "fin"

FSign(a) == IF a.q < 0 THEN -1 ELSE IF a.q > 0 THEN 1 ELSE 0

TDiv(x, d) == IF x >= 0 THEN x \div d ELSE -((-x) \div d)

Norm(q) == IF q > FMax THEN Inf(1) ELSE IF q < -FMax THEN Inf(-1) ELSE Fin(q)

FNeg(a) == [a EXCEPT !.q = -a.q]

FAdd(a, b) ==
  IF isnan(a) \/ isnan(b) THEN NaN
  ELSE IF a.k = "inf" /\ b.k = "inf" THEN (IF a.q = b.q THEN a ELSE NaN)
  ELSE IF a.k = "inf" THEN a
  ELSE IF b.k = "inf" THEN b
  ELSE Norm(a.q + b.q)

FSub(a, b) == FAdd(a, FNeg(b))

FMul(a, b) ==
  IF isnan(a) \/ isnan(b) THEN NaN
  ELSE IF a.k = "inf" \/ b.k = "inf"
    THEN (IF FSign(a) * FSign(b) = 0 THEN NaN ELSE Inf(FSign(a) * FSign(b)))
  ELSE Norm(TDiv(a.q * b.q, FDen))

FDiv(a, b) ==
  IF isnan(a) \/ isnan(b) THEN NaN
  ELSE IF a.k = "inf" THEN (IF b.k = "inf" THEN NaN
                            ELSE Inf(IF FSign(b) < 0 THEN -a.q ELSE a.q))
  ELSE IF b.k = "inf" THEN Fin(0)
  ELSE IF b.q = 0 THEN (IF a.q = 0 THEN NaN ELSE Inf(FSign(a)))
  ELSE Norm(TDiv(a.q * FDen, b.q))

\* a * (num / den) for a constant that is not on the grid.
FScale(a, num, den) ==
  IF isnan(a) THEN NaN ELSE IF a.k = "inf" THEN a ELSE Norm(TDiv(a.q * num, den))

FLt(a, b) ==
  /\ ~isnan(a)
  /\ ~isnan(b)
  /\ \/ a = Inf(-1) /\ b # Inf(-1)
     \/ b = Inf(1) /\ a # Inf(1)
     \/ a.k = "fin" /\ b.k = "fin" /\ a.q < b.q

FGe(a, b) == ~isnan(a) /\ ~isnan(b) /\ ~FLt(a, b)

\* std::clamp(v, lo, hi) with lo <= hi: (v < lo) ? lo : (hi < v) ? hi : v.
FClamp(v, lo, hi) == IF FLt(v, lo) THEN lo ELSE IF FLt(hi, v) THEN hi ELSE v

fabs(a) == IF a.k = "fin" THEN Fin(Abs(a.q)) ELSE IF a.k = "inf" THEN Inf(1) ELSE NaN

floor(a) == IF a.k = "fin" THEN Fin((a.q \div FDen) * FDen) ELSE a

\* std::copysign(a, x): the sign bit of a zero or of a NaN x can be either.
SignBits(x) == IF isnan(x) \/ (x.k = "fin" /\ x.q = 0) THEN {1, -1} ELSE {FSign(x)}

copysign(a, s) == IF s * FSign(a) < 0 THEN FNeg(a) ELSE a

RECURSIVE PowInt(_, _)
PowInt(b, n) == IF n = 0 THEN FOne ELSE FMul(PowInt(b, n - 1), b)

\* std::pow(b, e) for a finite b > 0 and e a whole number >= 0, +inf or NaN.
pow(b, e) ==
  IF b = FOne THEN FOne
  ELSE IF isnan(e) THEN NaN
  ELSE IF e.k = "inf" THEN (IF FLt(FOne, b) THEN Inf(1) ELSE Fin(0))
  ELSE PowInt(b, e.q \div FDen)

Specials == {NaN, Inf(1), Inf(-1)}

\* ------------------------------------------------------------------------
\* AdaptiveNotchCPZ
\* ------------------------------------------------------------------------
MuNum == 2
MuDen == 1024
NotchClip == 16     \* 1 / epsilon of the sample type, in units of 1.0
MaxNotchInput == 2  \* finite inputs are k * NotchClip, |k| <= MaxNotchInput
MaxNotchCalls == 5  \* process calls followed between two resets

NotchBound == Fin(2 * FDen)

NotchInputs ==
  Specials \cup {Fin(k * NotchClip * FDen) : k \in (0 - MaxNotchInput) .. MaxNotchInput}

\* narrowness in [0, 1)
Narrowness == {Fin(q) : q \in 0 .. (FDen - 1)}

\* The notch after construction.
InitNotch ==
  /\ alpha = FNeg(NotchBound)
  /\ v1 = Fin(0)
  /\ v2 = Fin(0)
  /\ nLast = [op |-> "construct", calls |-> 0, input |-> Fin(0), narrowness |-> Fin(0),
              out |-> Fin(0)]

NotchReset ==
  /\ alpha' = FNeg(NotchBound)
  /\ v1' = Fin(0)
  /\ v2' = Fin(0)
  /\ nLast' = [op |-> "reset", calls |-> 0, input |-> Fin(0), narrowness |-> Fin(0),
               out |-> Fin(0)]
  /\ UNCHANGED exceptNotch

\* (mutant) the coefficient update without the clamp to [-bound, bound].
NotchAlphaUnclamped(a, y0, s0) == FSub(a, FScale(FMul(y0, s0), MuNum, MuDen))

\* alpha = std::clamp(alpha - y0 * s0 * mu, -bound, bound)
NotchAlpha(a, y0, s0) ==
  FClamp(FSub(a, FScale(FMul(y0, s0), MuNum, MuDen)), FNeg(NotchBound), NotchBound)

NotchProcess ==
  /\ nLast.calls < MaxNotchCalls
  /\ \E input \in NotchInputs, narrowness \in Narrowness :
       LET a1 == FMul(narrowness, alpha)
           a2 == FMul(narrowness, narrowness)
           two == Fin(2 * FDen)
           gain == IF FGe(alpha, Fin(0))
                   THEN FDiv(FAdd(FAdd(FOne, a1), a2), FAdd(two, alpha))
                   ELSE FDiv(FAdd(FSub(FOne, a1), a2), FSub(two, alpha))
           clip == Fin(NotchClip * FDen)
           x0 == FClamp(input, FNeg(clip), clip)
           v0 == FSub(FSub(x0, FMul(a1, v1)), FMul(a2, v2))
           y0 == FAdd(FAdd(v0, FMul(alpha, v1)), v2)
           s0 == FSub(FMul(FSub(FOne, narrowness), v0),
                      FMul(FMul(narrowness, FSub(FOne, narrowness)), v2))
       IN /\ alpha' = NotchAlpha(alpha, y0, s0)
          /\ v2' = v1
          /\ v1' = v0
          /\ nLast' = [op |-> "process", calls |-> nLast.calls + 1, input |-> input,
                       narrowness |-> narrowness, out |-> FMul(y0, gain)]
  /\ UNCHANGED exceptNotch

\* ------------------------------------------------------------------------
\* FoldShaper
\* ------------------------------------------------------------------------
SafeClipBound == 1024
MaxX0 == 3          \* finite inputs of process are within [-MaxX0, MaxX0]
MaxGain == 2        \* gain is within [0, MaxGain]
MaxMultiply == 64   \* the largest multiply
MaxFoldInputs == 3  \* process16 calls counted since the last reset
intDelay == 15      \* Fir16FoldUpSample::intDelay

\* Values of multiply: the grid points up to 2 and MaxMultiply.
Multiplies == {Fin(q) : q \in 1 .. (2 * FDen)} \cup {Fin(MaxMultiply * FDen)}

\* (mutant) safeClip without the isfinite test.
safeClipNoFiniteTest(input) ==
  FClamp(input, Fin(-SafeClipBound * FDen), Fin(SafeClipBound * FDen))

safeClip(input) ==
  IF isfinite(input)
  THEN FClamp(input, Fin(-SafeClipBound * FDen), Fin(SafeClipBound * FDen))
  ELSE Fin(0)

\* int(floored) % 2 == 1; the conversion of a value that is not finite is
\* undefined and may select either branch.
FlooredIsOdd(floored) ==
  IF isfinite(floored) THEN {(floored.q \div FDen) % 2 = 1} ELSE BOOLEAN

\* The value FoldShaper::process hands to safeClip.
Shaped(x0, absed, floored, mul, odd, sx) ==
  LET frac == FMul(mul, FSub(absed, floored))
  IN IF odd
     THEN FSub(copysign(FOne, sx), copysign(frac, sx))
     ELSE IF FGe(floored, FOne)
       THEN copysign(FAdd(frac, FSub(FOne, FDiv(mul, foldMultiply))), sx)
       ELSE copysign(FAdd(frac, FSub(FOne, mul)), sx)

\* The FoldShaper after construction.
InitFold ==
  /\ foldGain = FOne
  /\ foldMultiply = FOne
  /\ foldHardclip = TRUE
  /\ fLast = [op |-> "construct", x0 |-> Fin(0), shaped |-> Fin(0), out |-> Fin(0)]
  /\ foldFilters = 0
  /\ latencyRet = 0

\* DSPCore assigns the public fields gain, multiply and hardclip.
FoldSetParameters ==
  /\ foldGain' \in {Fin(q) : q \in 0 .. (MaxGain * FDen)}
  /\ foldMultiply' \in Multiplies
  /\ foldHardclip' \in BOOLEAN
  /\ fLast' = [op |-> "set", x0 |-> Fin(0), shaped |-> Fin(0), out |-> Fin(0)]
  /\ UNCHANGED <<foldFilters, latencyRet>>
  /\ UNCHANGED exceptFold

FoldProcess ==
  /\ \E input \in Specials \cup {Fin(q) : q \in (0 - MaxX0 * FDen) .. (MaxX0 * FDen)} :
       LET x0 == IF foldHardclip THEN FClamp(input, FNeg(FOne), FOne) ELSE input
           absed == fabs(FMul(x0, foldGain))
           floored == floor(absed)
           mul == pow(foldMultiply, floored)
       IN \E odd \in FlooredIsOdd(floored), sx \in SignBits(x0) :
            LET output == Shaped(x0, absed, floored, mul, odd, sx)
            IN fLast' = [op |-> "process", x0 |-> input, shaped |-> output,
                         out |-> safeClip(output)]
  /\ UNCHANGED <<foldGain, foldMultiply, foldHardclip, foldFilters, latencyRet>>
  /\ UNCHANGED exceptFold

\* FoldShaper::reset clears the three multirate filters. Their sample values
\* are outside the model: foldFilters counts the inputs they hold.
FoldReset ==
  /\ foldFilters' = 0
  /\ fLast' = [op |-> "reset", x0 |-> Fin(0), shaped |-> Fin(0), out |-> Fin(0)]
  /\ UNCHANGED <<foldGain, foldMultiply, foldHardclip, latencyRet>>
  /\ UNCHANGED exceptFold

\* FoldShaper::process16 feeds one input to upSampler and the sixteen shaped
\* samples to lowpass and halfbandIir; the value returned by halfbandIir is
\* not modelled.
FoldProcess16 ==
  /\ \E input \in {Fin(q) : q \in (0 - MaxX0 * FDen) .. (MaxX0 * FDen)} :
       fLast' = [op |-> "process16", x0 |-> input, shaped |-> Fin(0), out |-> Fin(0)]
  /\ foldFilters' = IF foldFilters < MaxFoldInputs THEN foldFilters + 1 ELSE foldFilters
  /\ UNCHANGED <<foldGain, foldMultiply, foldHardclip, latencyRet>>
  /\ UNCHANGED exceptFold

\* (mutant) a latency that follows the number of inputs the filters hold.
latencyOfFilters == IF foldFilters < intDelay THEN foldFilters ELSE intDelay

\* FoldShaper::latency
latency == intDelay

FoldLatency ==
  /\ latencyRet' = latency
  /\ fLast' = [op |-> "latency", x0 |-> Fin(0), shaped |-> Fin(0), out |-> Fin(0)]
  /\ UNCHANGED <<foldGain, foldMultiply, foldHardclip, foldFilters>>
  /\ UNCHANGED exceptFold

\* ------------------------------------------------------------------------
\* GrowlSynth SVF and SVFHighpass. A cutoff is c / CutoffDen; the clamp
\* bounds minCutoff and nyquist are the first grid point above 0 and the
\* last one below 1/2.
\* ------------------------------------------------------------------------
CutoffDen == 4      \* grid steps per 1.0 of normalized frequency
MaxQ == 1           \* Q is within [-1/FDen, MaxQ]
MaxFilterCalls == 2 \* process calls followed in one behaviour

minCutoff == 1

nyquist == (CutoffDen - 1) \div 2

Cutoffs == -1 .. CutoffDen

Qs == {Fin(q) : q \in -1 .. (MaxQ * FDen)}

FilterInputs == {Fin(0), Fin(FDen)}

\* std::clamp(normalizedFreq, minCutoff, nyquist)
ClampCutoff(c) == IF c < minCutoff THEN minCutoff ELSE IF nyquist < c THEN nyquist ELSE c

\* Sample(1) / Q
RecipQ(Q) == FDiv(FOne, Q)

\* std::tan(pi * c / CutoffDen) for 0 < c < CutoffDen / 2: positive, growing
\* without bound towards 1/2; rounded up onto the sample grid.
TanPi(c) == Norm((2 * c * FDen + (CutoffDen - 2 * c) - 1) \div (CutoffDen - 2 * c))

SVFTypes == {"lowpass", "bandpass", "highpass", "notch", "peak", "allpass"}

FTwo == Fin(2 * FDen)

\* The value SVF::process returns for the types without a shelving gain.
SVFMix(type, v0, nv1, nv2, k) ==
  CASE type = "lowpass" -> nv2
    [] type = "bandpass" -> nv1
    [] type = "highpass" -> FSub(FSub(v0, FMul(k, nv1)), nv2)
    [] type = "notch" -> FSub(v0, FMul(k, nv1))
    [] type = "peak" -> FSub(FSub(v0, FMul(k, nv1)), FMul(FTwo, nv2))
    [] type = "allpass" -> FSub(v0, FMul(FMul(FTwo, k), nv1))

FilterLast(name, calls, Q, k, o) == [op |-> name, calls |-> calls, Q |-> Q, k |-> k, out |-> o]

\* ExpSmoother (common/dsp/smoother.hpp): reset(x) sets value and target,
\* push(x) sets the target, process() moves value towards target.
ExpSmootherReset(x) == [value |-> x, target |-> x]

ExpSmootherPush(sm, x) == [sm EXCEPT !.target = x]

ExpSmootherProcess(sm) ==
  [sm EXCEPT !.value = FAdd(sm.value, FDiv(FSub(sm.target, sm.value), Fin(KpDen * FDen)))]

\* The filters after construction.
InitFilter ==
  /\ svf = [s1 |-> Fin(0), s2 |-> Fin(0)]
  /\ svfHighpass = [s1 |-> Fin(0), s2 |-> Fin(0), g |-> ExpSmootherReset(Fin(0)),
                    d |-> ExpSmootherReset(Fin(0)), k |-> ExpSmootherReset(Fin(0))]
  /\ filtLast = FilterLast("construct", 0, FOne, FOne, Fin(0))

SVFReset ==
  /\ svf' = [s1 |-> Fin(0), s2 |-> Fin(0)]
  /\ filtLast' = FilterLast("SVF::reset", filtLast.calls, FOne, FOne, Fin(0))
  /\ UNCHANGED svfHighpass
  /\ UNCHANGED exceptFilter

\* SVF<Sample, type>::process(v0, normalizedFreq, Q) for a type below bell.
SVFProcess ==
  /\ filtLast.calls < MaxFilterCalls
  /\ \E v0 \in FilterInputs, normalizedFreq \in Cutoffs, Q \in Qs, type \in SVFTypes :
       LET g == TanPi(ClampCutoff(normalizedFreq))
           k == RecipQ(Q)
           nv1 == FDiv(FAdd(svf.s1, FMul(g, FSub(v0, svf.s2))),
                       FAdd(FOne, FMul(g, FAdd(g, k))))
           nv2 == FAdd(svf.s2, FMul(g, nv1))
       IN /\ svf' = [s1 |-> FSub(FMul(FTwo, nv1), svf.s1),
                     s2 |-> FSub(FMul(FTwo, nv2), svf.s2)]
          /\ filtLast' = FilterLast("SVF::process", filtLast.calls + 1, Q, k,
                                    SVFMix(type, v0, nv1, nv2, k))
  /\ UNCHANGED svfHighpass
  /\ UNCHANGED exceptFilter

\* SVFHighpass::reset(freqNormalized, Q)
SVFHighpassReset ==
  /\ \E freqNormalized \in Cutoffs, Q \in Qs :
       LET g == TanPi(ClampCutoff(freqNormalized))
           k == RecipQ(Q)
           d == FDiv(FOne, FAdd(FAdd(FOne, FMul(g, g)), FMul(g, k)))
       IN /\ svfHighpass' = [s1 |-> Fin(0), s2 |-> Fin(0), g |-> ExpSmootherReset(g),
                             k |-> ExpSmootherReset(k), d |-> ExpSmootherReset(d)]
          /\ filtLast' = FilterLast("SVFHighpass::reset", filtLast.calls, Q, k, Fin(0))
  /\ UNCHANGED svf
  /\ UNCHANGED exceptFilter

\* SVFHighpass::push(freqNormalized, Q)
SVFHighpassPush ==
  /\ \E freqNormalized \in Cutoffs, Q \in Qs :
       LET g == ExpSmootherPush(svfHighpass.g, TanPi(ClampCutoff(freqNormalized)))
           k == ExpSmootherPush(svfHighpass.k, RecipQ(Q))
           d == ExpSmootherPush(svfHighpass.d,
                  FDiv(FOne, FAdd(FAdd(FOne, FMul(g.target, g.target)),
                                  FMul(g.target, k.target))))
       IN /\ svfHighpass' = [svfHighpass EXCEPT !.g = g, !.k = k, !.d = d]
          /\ filtLast' = FilterLast("SVFHighpass::push", filtLast.calls, Q, k.target, Fin(0))
  /\ UNCHANGED svf
  /\ UNCHANGED exceptFilter

\* SVFHighpass::process(v0)
SVFHighpassProcess ==
  /\ filtLast.calls < MaxFilterCalls
  /\ \E v0 \in FilterInputs :
       LET g == ExpSmootherProcess(svfHighpass.g)
           d == ExpSmootherProcess(svfHighpass.d)
           k == ExpSmootherProcess(svfHighpass.k)
           nv1 == FMul(FAdd(svfHighpass.s1, FMul(g.value, FSub(v0, svfHighpass.s2))), d.value)
           nv2 == FAdd(svfHighpass.s2, FMul(g.value, nv1))
       IN /\ svfHighpass' = [s1 |-> FSub(FMul(FTwo, nv1), svfHighpass.s1),
                             s2 |-> FSub(FMul(FTwo, nv2), svfHighpass.s2),
                             g |-> g, d |-> d, k |-> k]
          /\ filtLast' = FilterLast("SVFHighpass::process", filtLast.calls + 1, FOne, k.value,
                                    FSub(FSub(v0, FMul(k.value, nv1)), nv2))
  /\ UNCHANGED svf
  /\ UNCHANGED exceptFilter

\* ------------------------------------------------------------------------
\* DoubleLoopCymbal ExpDSREnvelope
\* ------------------------------------------------------------------------
MaxEnvTime == 3     \* decay and release times are 0 .. MaxEnvTime samples

\* std::pow(eps, 1 / time): 0 for time = 0 (the exponent is +inf), below 1 and
\* growing with the time otherwise; rounded onto the sample grid.
AlphaOfTime(time) == Fin((time * FDen) \div (time + 1))

SustainLevels == {Fin(q) : q \in 0 .. FDen}

\* (mutant) trigger that starts the decaying part at 1 above the sustain level.
ExpDSRTriggerValueFull(sustainLevel) == FOne

\* ExpDSREnvelope::trigger: value = Sample(1) - sustainLevel
ExpDSRTriggerValue(sustainLevel) == FSub(FOne, sustainLevel)

\* (mutant) reset that copies the stale decay coefficient into value.
ExpDSRResetStale(e) ==
  [value |-> e.alphaD, alphaD |-> Fin(0), alphaR |-> Fin(0), offset |-> Fin(0),
   state |-> "release"]

\* ExpDSREnvelope::reset
ExpDSRResetState(e) ==
  [value |-> Fin(0), alphaD |-> Fin(0), alphaR |-> Fin(0), offset |-> Fin(0),
   state |-> "release"]

\* The envelope after construction. eLast.ret is the value that process()
\* returned last since the latest trigger(), +inf when it has returned none;
\* eLast.prev is the one it returned before that; eLast.rel tells that
\* release() was called since the latest trigger(), eLast.trig that trigger()
\* was called at all.
InitExpEnv ==
  /\ expDSR = [value |-> Fin(0), alphaD |-> Fin(0), alphaR |-> Fin(0), offset |-> Fin(0),
               state |-> "release"]
  /\ eLast = [op |-> "construct", out |-> Fin(0), ret |-> Inf(1), prev |-> Inf(1),
              rel |-> FALSE, trig |-> FALSE]

ExpDSRSetTime ==
  /\ \E decayTimeInSamples \in 0 .. MaxEnvTime, releaseTimeInSamples \in 0 .. MaxEnvTime :
       expDSR' = [expDSR EXCEPT !.alphaD = AlphaOfTime(decayTimeInSamples),
                                !.alphaR = AlphaOfTime(releaseTimeInSamples)]
  /\ eLast' = [eLast EXCEPT !.op = "setTime", !.out = Fin(0)]
  /\ UNCHANGED exceptExpEnv

ExpDSRReset ==
  /\ expDSR' = ExpDSRResetState(expDSR)
  /\ eLast' = [eLast EXCEPT !.op = "reset", !.out = Fin(0)]
  /\ UNCHANGED exceptExpEnv

ExpDSRTrigger ==
  /\ \E sustainLevel \in SustainLevels :
       expDSR' = [expDSR EXCEPT !.state = "decay", !.value = ExpDSRTriggerValue(sustainLevel),
                                !.offset = sustainLevel]
  /\ eLast' = [op |-> "trigger", out |-> Fin(0), ret |-> Inf(1), prev |-> Inf(1),
               rel |-> FALSE, trig |-> TRUE]
  /\ UNCHANGED exceptExpEnv

ExpDSRRelease ==
  /\ expDSR' = [expDSR EXCEPT !.state = "release", !.offset = Fin(0)]
  /\ eLast' = [eLast EXCEPT !.op = "release", !.out = Fin(0), !.rel = TRUE]
  /\ UNCHANGED exceptExpEnv

ExpDSRProcess ==
  /\ IF expDSR.state = "decay"
     THEN LET v == FMul(expDSR.value, expDSR.alphaD)
          IN /\ expDSR' = [expDSR EXCEPT !.value = v]
             /\ eLast' = [eLast EXCEPT !.op = "process", !.out = FAdd(expDSR.offset, v),
                                        !.ret = FAdd(expDSR.offset, v), !.prev = eLast.ret]
     ELSE LET v == FMul(expDSR.value, expDSR.alphaR)
          IN /\ expDSR' = [expDSR EXCEPT !.value = v]
             /\ eLast' = [eLast EXCEPT !.op = "process", !.out = v, !.ret = v,
                                        !.prev = eLast.ret]
  /\ UNCHANGED exceptExpEnv

\* ------------------------------------------------------------------------
\* DoubleLoopCymbal SerialAllpass<Sample, NAllpass, NAdaptiveNotch>: per
\* stage a tap (buffer), a Delay, an EmaHighShelf (lowpass) and an
\* EmaLowShelf (highpass), followed by the adaptive notches.
\* ------------------------------------------------------------------------
NAllpass == 2          \* nAllpass
NAdaptiveNotch == 1    \* nAdaptiveNotch
MaxAllpassCalls == 3   \* process calls followed in one behaviour
MaxAllpassInput == 4   \* the inputs of process are 0 and MaxAllpassInput

Stages == 1 .. NAllpass

\* std::lerp(a, b, t)
Lerp(a, b, t) == FAdd(a, FMul(t, FSub(b, a)))

\* value += kp * (input - value)
EmaStep(value, input, kp) == FAdd(value, FMul(kp, FSub(input, value)))

\* lagrange3Interp on samples of the grid.
FLagrange3(y0, y1, y2, y3, t) ==
  LET u == FAdd(FOne, t)
      d0 == FSub(y0, y1)
      d1 == FSub(d0, FSub(y1, y2))
      d2 == FSub(d1, FSub(FSub(y1, y2), FSub(y2, y3)))
  IN FSub(y0, FMul(u, FAdd(d0,
       FMul(FDiv(FSub(FOne, u), FTwo),
            FAdd(d1, FMul(FDiv(FSub(FTwo, u), Fin(3 * FDen)), d2))))))

\* const int clamped = std::clamp(...): the conversion of a value that is
\* not finite is undefined; the model lets it be any offset that keeps the
\* reads inside the buffer.
IntOutcomes(pos, size) ==
  IF isfinite(pos) THEN {TDiv(pos.q, FDen)} ELSE 0 .. (size - 1)

\* Delay::process on a delay d = [buf, wptr] of capacity >= 5, for the read
\* offset timeInt.
StageDelay(d, input, timeInt) ==
  LET size == Len(d.buf)
      w == IF d.wptr + 1 >= size THEN 0 ELSE d.wptr + 1
      b == [d.buf EXCEPT ![w + 1] = input]
      rptr0 == w - timeInt
  IN [buf |-> b, wptr |-> w,
      out |-> FLagrange3(b[WrapRead(rptr0, size) + 1], b[WrapRead(rptr0 - 1, size) + 1],
                         b[WrapRead(rptr0 - 2, size) + 1], b[WrapRead(rptr0 - 3, size) + 1],
                         Fin(0))]

\* AdaptiveNotchCPZ::process on a notch n = [alpha, v1, v2].
StageNotch(n, input, narrowness) ==
  LET a1 == FMul(narrowness, n.alpha)
      a2 == FMul(narrowness, narrowness)
      gain == IF FGe(n.alpha, Fin(0))
              THEN FDiv(FAdd(FAdd(FOne, a1), a2), FAdd(FTwo, n.alpha))
              ELSE FDiv(FAdd(FSub(FOne, a1), a2), FSub(FTwo, n.alpha))
      clip == Fin(NotchClip * FDen)
      x0 == FClamp(input, FNeg(clip), clip)
      v0 == FSub(FSub(x0, FMul(a1, n.v1)), FMul(a2, n.v2))
      y0 == FAdd(FAdd(v0, FMul(n.alpha, n.v1)), n.v2)
      s0 == FSub(FMul(FSub(FOne, narrowness), v0),
                 FMul(FMul(narrowness, FSub(FOne, narrowness)), n.v2))
  IN [alpha |-> NotchAlpha(n.alpha, y0, s0), v1 |-> v0, v2 |-> n.v1,
      out |-> FMul(y0, gain)]

\* The loop over the stages in SerialAllpass::process from stage idx on: the
\* set of [ap, input] it can end with.
RECURSIVE AllpassStages(_, _, _, _)
AllpassStages(ap, idx, input, P) ==
  IF idx > NAllpass THEN {[ap |-> ap, input |-> input]}
  ELSE
    LET lp == EmaStep(ap.lowpass[idx], input, P.highShelfCut)
        x0a == Lerp(lp, input, P.highShelfGain)
        hp == EmaStep(ap.highpass[idx], x0a, P.lowShelfCut)
        x0b == Lerp(FSub(x0a, hp), x0a, P.lowShelfGain)
        x0 == FSub(x0b, FMul(P.gain, ap.buffer[idx]))
        next == FAdd(ap.buffer[idx], FMul(P.gain, x0))
        time == FSub(FDiv(ap.timeInSamples[idx], P.pitchRatio),
                     FMul(P.timeModAmount, fabs(x0)))
        size == Len(ap.delay[idx].buf)
        pos == FClamp(FSub(time, FOne), FOne, Fin((size - 4) * FDen))
    IN UNION {
         LET d == StageDelay(ap.delay[idx], x0, timeInt)
         IN AllpassStages([ap EXCEPT !.lowpass[idx] = lp, !.highpass[idx] = hp,
                                     !.buffer[idx] = d.out,
                                     !.delay[idx] = [buf |-> d.buf, wptr |-> d.wptr]],
                          idx + 1, next, P)
         : timeInt \in IntOutcomes(pos, size)}

\* The loop over the first nNotch notches (numbered from 1 here): the set of
\* [ap, input] it can end with. notch[idx] beyond the std::array is
\* undefined: the call works on whatever follows the array and may return
\* any value.
RECURSIVE AllpassNotches(_, _, _, _)
AllpassNotches(ap, idx, input, P) ==
  IF idx > P.nNotch THEN {[ap |-> ap, input |-> input]}
  ELSE IF idx > NAdaptiveNotch
    THEN UNION {AllpassNotches(ap, idx + 1, v, P) : v \in Specials \cup {Fin(0)}}
  ELSE LET n == StageNotch(ap.notch[idx], input, P.notchNarrowness)
       IN AllpassNotches([ap EXCEPT !.notch[idx] = [alpha |-> n.alpha, v1 |-> n.v1,
                                                     v2 |-> n.v2]],
                         idx + 1, FAdd(input, FMul(P.notchMix, FSub(n.out, input))), P)

\* sumAlt: the loop adds x * sign from the first tap on, sign starting at +1.
RECURSIVE SumAlt(_, _, _, _)
SumAlt(buffer, idx, sign, acc) ==
  IF idx > Len(buffer) THEN acc
  ELSE SumAlt(buffer, idx + 1, -sign, FAdd(acc, FMul(buffer[idx], Fin(sign * FDen))))

\* std::accumulate(buffer.begin(), buffer.end(), Sample(0))
RECURSIVE SumDirect(_, _, _)
SumDirect(buffer, idx, acc) ==
  IF idx > Len(buffer) THEN acc ELSE SumDirect(buffer, idx + 1, FAdd(acc, buffer[idx]))

\* (mutant) the crossfade normalised by nAllpass.
AllpassSumHalfNorm(buffer, altSignMix) ==
  FDiv(Lerp(SumDirect(buffer, 1, Fin(0)), SumAlt(buffer, 1, 1, Fin(0)), altSignMix),
       Fin(NAllpass * FDen))

\* The value SerialAllpass::sum(altSignMix) returns.
AllpassSumValue(buffer, altSignMix) ==
  FDiv(Lerp(SumDirect(buffer, 1, Fin(0)), SumAlt(buffer, 1, 1, Fin(0)), altSignMix),
       FMul(FTwo, Fin(NAllpass * FDen)))

NotchInit == [alpha |-> FNeg(NotchBound), v1 |-> Fin(0), v2 |-> Fin(0)]

\* SerialAllpass::reset: the taps, the delays' buffers, the shelving filters
\* and the notches; wptr and timeInSamples stay.
AllpassResetState(ap) ==
  [ap EXCEPT !.buffer = [i \in Stages |-> Fin(0)],
             !.delay = [i \in Stages |->
                          [buf |-> [k \in 1 .. Len(ap.delay[i].buf) |-> Fin(0)],
                           wptr |-> ap.delay[i].wptr]],
             !.lowpass = [i \in Stages |-> Fin(0)],
             !.highpass = [i \in Stages |-> Fin(0)],
             !.notch = [i \in 1 .. NAdaptiveNotch |-> NotchInit]]

AllpassLast(name, calls, o) == [op |-> name, calls |-> calls, out |-> o]

\* The allpass chain after construction.
InitAllpass ==
  /\ serialAllpass =
       [buffer |-> [i \in Stages |-> Fin(0)],
        delay |-> [i \in Stages |-> [buf |-> <<Fin(0), Fin(0)>>, wptr |-> 0]],
        lowpass |-> [i \in Stages |-> Fin(0)],
        highpass |-> [i \in Stages |-> Fin(0)],
        notch |-> [i \in 1 .. NAdaptiveNotch |-> NotchInit],
        timeInSamples |-> [i \in Stages |-> Fin(0)]]
  /\ apLast = AllpassLast("construct", 0, Fin(0))

\* SerialAllpass::setup(maxTimeSamples) with maxTimeSamples >= 1.
AllpassSetup ==
  /\ \E maxTimeSamples \in 1 .. (MaxDelayTime - 1) :
       serialAllpass' =
         [serialAllpass EXCEPT
            !.delay = [i \in Stages |->
                         [buf |-> [k \in 1 .. DelayCapacity(maxTimeSamples * TimeDen) |-> Fin(0)],
                          wptr |-> serialAllpass.delay[i].wptr]]]
  /\ apLast' = AllpassLast("setup", apLast.calls, Fin(0))
  /\ UNCHANGED exceptAllpass

AllpassReset ==
  /\ serialAllpass' = AllpassResetState(serialAllpass)
  /\ apLast' = AllpassLast("reset", apLast.calls, Fin(0))
  /\ UNCHANGED exceptAllpass

\* The owner writes the public array timeInSamples.
AllpassSetTime ==
  /\ \E times \in [Stages -> {Fin(2 * FDen), Fin(3 * FDen)}] :
       serialAllpass' = [serialAllpass EXCEPT !.timeInSamples = times]
  /\ apLast' = AllpassLast("setTime", apLast.calls, Fin(0))
  /\ UNCHANGED exceptAllpass

\* SerialAllpass::applyGain(gain)
AllpassApplyGain ==
  /\ \E gain \in {Fin(0), Fin(1)} :
       serialAllpass' =
         [serialAllpass EXCEPT
            !.delay = [i \in Stages |->
                         [buf |-> [k \in 1 .. Len(serialAllpass.delay[i].buf) |->
                                     FMul(serialAllpass.delay[i].buf[k], gain)],
                          wptr |-> serialAllpass.delay[i].wptr]]]
  /\ apLast' = AllpassLast("applyGain", apLast.calls, Fin(0))
  /\ UNCHANGED exceptAllpass

\* SerialAllpass::sum(altSignMix)
AllpassSum ==
  /\ \E altSignMix \in {Fin(q) : q \in 0 .. FDen} :
       apLast' = [op |-> "sum", calls |-> apLast.calls, mix |-> altSignMix,
                  out |-> AllpassSumValue(serialAllpass.buffer, altSignMix)]
  /\ UNCHANGED serialAllpass
  /\ UNCHANGED exceptAllpass

\* SerialAllpass::process(...), called after setup.
AllpassProcess ==
  /\ apLast.calls < MaxAllpassCalls
  /\ \A i \in Stages : Len(serialAllpass.delay[i].buf) >= 5
  /\ \E input \in {Fin(0), Fin(MaxAllpassInput * FDen)}, shelvingGain \in {Fin(0), FOne},
        gain \in {Fin(0), Fin(1)}, nNotch \in 0 .. (NAdaptiveNotch + 1) :
       LET P == [highShelfCut |-> Fin(1), highShelfGain |-> shelvingGain,
                 lowShelfCut |-> Fin(1), lowShelfGain |-> shelvingGain,
                 gain |-> gain, pitchRatio |-> FOne, timeModAmount |-> Fin(0),
                 nNotch |-> nNotch, notchMix |-> FOne, notchNarrowness |-> Fin(0)]
       IN \E r \in AllpassStages(serialAllpass, 1, input, P) :
            \E n \in AllpassNotches(r.ap, 1, r.input, P) :
              /\ serialAllpass' = n.ap
              /\ apLast' = [op |-> "process", calls |-> apLast.calls + 1, out |-> n.input,
                            nNotch |-> nNotch]
  /\ UNCHANGED exceptAllpass

\* ------------------------------------------------------------------------
\* EnvelopedSine White16. A uint32_t is kept as its two 16 bit halves, so
\* that the products stay within the integers of the checker.
\* ------------------------------------------------------------------------
Half == 2 ^ 16
LcgA == 1664525
LcgC == 1013904223
NLanes == 16
NGens == 2          \* generators alive together
MaxNoiseCalls == 3  \* process calls counted since the last setSeed

Gens == 1 .. NGens
U32(hi, lo) == [hi |-> hi, lo |-> lo]
Seeds == {U32(0, 0), U32(0, 1), U32(Half \div 2, 0), U32(Half - 1, Half - 1)}

\* 1664525L * seed + 1013904223L stored in a uint32_t: modulo 2^32.
Lcg(seed) ==
  LET low == (LcgA % Half) * seed.lo + (LcgC % Half)
      high == (low \div Half) + (LcgA \div Half) * seed.lo + (LcgA % Half) * seed.hi
                + (LcgC \div Half)
  IN U32(high % Half, low % Half)

RECURSIVE SetSeedLoop(_, _, _)
\* The loop of setSeed from lane idx on (lanes are numbered from 1 here).
SetSeedLoop(buffer, seed, idx) ==
  IF idx > NLanes THEN buffer
  ELSE LET next == Lcg(seed)
       IN SetSeedLoop([buffer EXCEPT ![idx] = next], next, idx + 1)

\* (mutant) a setSeed that stops one lane short.
White16SetSeedShort(buffer, seed) ==
  LET full == SetSeedLoop(buffer, seed, 1)
  IN [full EXCEPT ![NLanes] = buffer[NLanes]]

White16SetSeed(buffer, seed) == SetSeedLoop(buffer, seed, 1)

\* buffer = 1664525L * buffer + 1013904223L, lane by lane.
White16Process(buffer) == [idx \in 1 .. NLanes |-> Lcg(buffer[idx])]

\* White16(seed): buffer{0}, then setSeed(seed).
White16Construct(seed) ==
  [buffer |-> White16SetSeed([idx \in 1 .. NLanes |-> U32(0, 0)], seed),
   seed |-> seed, calls |-> 0]

\* Every generator is constructed with seed 0.
InitNoise ==
  /\ white = [g \in Gens |-> White16Construct(U32(0, 0))]
  /\ wLast = [op |-> "construct", gen |-> 0]

WhiteSetSeed ==
  /\ \E g \in Gens, seed \in Seeds :
       /\ white' = [white EXCEPT ![g] =
            [buffer |-> White16SetSeed(white[g].buffer, seed), seed |-> seed, calls |-> 0]]
       /\ wLast' = [op |-> "setSeed", gen |-> g]
  /\ UNCHANGED exceptNoise

\* process() advances the buffer; the floats it returns are computed from the
\* new buffer and are no part of the state.
WhiteProcess ==
  /\ \E g \in Gens :
       /\ white[g].calls < MaxNoiseCalls
       /\ white' = [white EXCEPT ![g].buffer = White16Process(white[g].buffer),
                                 ![g].calls = white[g].calls + 1]
       /\ wLast' = [op |-> "process", gen |-> g]
  /\ UNCHANGED exceptNoise

\* ------------------------------------------------------------------------
\* GrowlSynth Delay (linear interpolation). timeInSamples is timeQ / TimeDen
\* and the output is scaled by TimeDen.
\* ------------------------------------------------------------------------
MaxLerpDelayTime == 2   \* largest sampleRate * maxTimeSeconds given to setup

LerpDelayTimes == (0 - TimeDen) .. ((MaxLerpDelayTime + 2) * TimeDen)

\* std::max(size_t(2), size_t(sampleRate * maxTimeSeconds) + 1)
LerpDelayCapacity(maxTime) == Max(2, maxTime + 1)

\* std::lerp(a, b, t) with t = f / TimeDen, times TimeDen.
StdLerp(a, b, f) == TimeDen * a + f * (b - a)

LerpDelayLastNone(name) ==
  [op |-> name, time |-> 0, input |-> 0, size |-> 0, timeInt |-> 0, fraction |-> 0,
   wptr |-> 0, rptr0 |-> 0, rptr1 |-> 0, out |-> 0]

\* The Delay after construction.
InitLerpDelay ==
  /\ gdBuf = <<0, 0>>
  /\ gdWptr = 0
  /\ gdLast = LerpDelayLastNone("construct")
  /\ gdHist = <<>>

\* Delay::setup(sampleRate, maxTimeSeconds): resize, then reset().
LerpDelaySetup ==
  /\ \E maxTime \in 0 .. MaxLerpDelayTime :
       gdBuf' = [k \in 1 .. LerpDelayCapacity(maxTime) |-> 0]
  /\ UNCHANGED gdWptr
  /\ gdLast' = LerpDelayLastNone("setup")
  /\ gdHist' = <<>>
  /\ UNCHANGED exceptLerpDelay

LerpDelayReset ==
  /\ gdBuf' = [k \in 1 .. Len(gdBuf) |-> 0]
  /\ gdLast' = LerpDelayLastNone("reset")
  /\ gdHist' = <<>>
  /\ UNCHANGED gdWptr
  /\ UNCHANGED exceptLerpDelay

\* (mutant) the read pointer taken after the write pointer moved on.
LerpDelayRptr0AfterWrite(w, timeInt, size) ==
  LET n == IF w + 1 >= size THEN 0 ELSE w + 1
      r == n - timeInt
  IN IF r < 0 THEN r + size ELSE r

\* int rptr0 = wptr - timeInt; if (rptr0 < 0) rptr0 += size;
LerpDelayRptr0(w, timeInt, size) ==
  LET r == w - timeInt IN IF r < 0 THEN r + size ELSE r

\* Delay::process(input, timeInSamples). A write outside the vector is
\* undefined: it lands beyond the elements and leaves them alone, or it
\* corrupts them (gdHist then holds -1, content unknown).
LerpDelayProcess ==
  /\ \E input \in 0 .. MaxSample, timeQ \in LerpDelayTimes :
       LET size == Len(gdBuf)
           clamped == ClampLoFirst(timeQ, 0, (size - 1) * TimeDen)
           timeInt == Trunc(clamped)
           rFraction == clamped - timeInt * TimeDen
           rptr0 == LerpDelayRptr0(gdWptr, timeInt, size)
           inside == gdWptr >= 0 /\ gdWptr < size
           w == IF gdWptr + 1 >= size THEN 0 ELSE gdWptr + 1
           rptr1 == (IF rptr0 # 0 THEN rptr0 ELSE size) - 1
       IN \E b \in (IF inside THEN {[gdBuf EXCEPT ![gdWptr + 1] = input]}
                    ELSE [1 .. size -> 0 .. MaxSample]) :
            /\ gdBuf' = b
            /\ gdWptr' = w
            /\ gdHist' = IF inside
                         THEN SubSeq(<<input>> \o gdHist, 1, Min(Len(gdHist) + 1, size))
                         ELSE [k \in 1 .. size |-> -1]
            /\ \E y0 \in ReadOutcomes(b, rptr0), y1 \in ReadOutcomes(b, rptr1) :
                 gdLast' = [op |-> "process", time |-> timeQ, input |-> input, size |-> size,
                            timeInt |-> timeInt, fraction |-> rFraction,
                            wptr |-> gdWptr, rptr0 |-> rptr0, rptr1 |-> rptr1,
                            out |-> StdLerp(y0, y1, rFraction)]
  /\ UNCHANGED exceptLerpDelay

\* ------------------------------------------------------------------------
\* An ADSREnvelope driven through its own interface. aLast counts the
\* process() calls since the last noteOn (up to MaxAttack + 1) and tells
\* whether noteOff was called since.
\* ------------------------------------------------------------------------
AdsrLast(name, on, off, calls) == [op |-> name, on |-> on, off |-> off, calls |-> calls]

InitAdsr ==
  /\ adsr = EnvInit
  /\ aLast = AdsrLast("construct", FALSE, FALSE, 0)

AdsrReset ==
  /\ adsr' = EnvReset(adsr)
  /\ aLast' = AdsrLast("reset", FALSE, FALSE, 0)
  /\ UNCHANGED exceptAdsr

AdsrNoteOn ==
  /\ \E attackSamples \in 0 .. MaxAttack : adsr' = EnvNoteOn(adsr, attackSamples)
  /\ aLast' = AdsrLast("noteOn", TRUE, FALSE, 0)
  /\ UNCHANGED exceptAdsr

AdsrNoteOff ==
  /\ adsr' = EnvNoteOff(adsr)
  /\ aLast' = AdsrLast("noteOff", aLast.on, TRUE, aLast.calls)
  /\ UNCHANGED exceptAdsr

AdsrProcess ==
  /\ adsr' = EnvProcess(adsr)
  /\ aLast' = AdsrLast("process", aLast.on, aLast.off, Min(aLast.calls + 1, MaxAttack + 1))
  /\ UNCHANGED exceptAdsr

\* ------------------------------------------------------------------------
\* GrowlSynth ImmediateRateLimiter. Values, targets and rates are finite and
\* lie on one grid, where the additions are exact. rLast.start and rLast.run
\* describe the run of process() calls with one target and one rate that the
\* last call belongs to.
\* ------------------------------------------------------------------------
MaxLimiterValue == 4   \* values and targets are within [-MaxLimiterValue, MaxLimiterValue]
MaxLimiterRate == 3    \* rates are within [0, MaxLimiterRate]

LimiterValues == (0 - MaxLimiterValue) .. MaxLimiterValue

\* (mutant) a step of rate towards the target whatever the distance.
LimiterStepAlways(value, target, rate) ==
  LET diff == target - value IN value + (IF diff < 0 THEN -rate ELSE rate)

\* std::abs(diff) > rate ? value + std::copysign(rate, diff) : target
LimiterStep(value, target, rate) ==
  LET diff == target - value
  IN IF Abs(diff) > rate THEN value + (IF diff < 0 THEN -rate ELSE rate) ELSE target

InitLimiter ==
  /\ limiterValue = 0
  /\ rLast = [op |-> "construct", target |-> 0, rate |-> 0, before |-> 0, start |-> 0,
              run |-> 0]

LimiterReset ==
  /\ \E resetValue \in LimiterValues :
       /\ limiterValue' = resetValue
       /\ rLast' = [op |-> "reset", target |-> 0, rate |-> 0, before |-> limiterValue,
                    start |-> resetValue, run |-> 0]
  /\ UNCHANGED exceptLimiter

LimiterProcess ==
  /\ \E target \in LimiterValues, rate \in 0 .. MaxLimiterRate :
       LET same == rLast.op = "process" /\ rLast.target = target /\ rLast.rate = rate
       IN /\ limiterValue' = LimiterStep(limiterValue, target, rate)
          /\ rLast' = [op |-> "process", target |-> target, rate |-> rate,
                       before |-> limiterValue,
                       start |-> IF same THEN rLast.start ELSE limiterValue,
                       run |-> IF same THEN Min(rLast.run + 1, 2 * MaxLimiterValue + 1)
                               ELSE 1]
  /\ UNCHANGED exceptLimiter

\* ------------------------------------------------------------------------
\* The voice pool driven through the public interface of DSPCore.
\* ------------------------------------------------------------------------
NoOp(name) == [op |-> name, index |-> -1, steal |-> FALSE]

\* The voice pool after construction and setup(sampleRate).
InitPool ==
  /\ notes = [v \in Voices |-> NoteInit]
  /\ nVoice \in 1 .. MaxVoice
  /\ \E size \in 1 .. MaxTrSize : transitionBuffer = Silence(size)
  /\ isTransitioning = FALSE
  /\ trIndex = 0
  /\ trStop = 0
  /\ midiNotes = <<>>
  /\ pc = "idle"
  /\ frameIdx = 0
  /\ length = 0
  /\ out = 0
  /\ last = NoOp("setup")
  /\ sinceFill = 0

Init ==
  /\ InitPool
  /\ InitDelay
  /\ InitNotch
  /\ InitFold
  /\ InitFilter
  /\ InitExpEnv
  /\ InitAllpass
  /\ InitNoise
  /\ InitLerpDelay
  /\ InitAdsr
  /\ InitLimiter

NoteOn ==
  /\ UNCHANGED unitVars
  /\ pc = "idle"
  /\ \E noteId \in NoteIds, velocity \in 1 .. MaxVelocity : DSPNoteOn(noteId, velocity)
  /\ UNCHANGED <<blockVars, out>>

NoteOff ==
  /\ UNCHANGED unitVars
  /\ pc = "idle"
  /\ \E noteId \in NoteIds : DSPNoteOff(noteId)
  /\ UNCHANGED <<blockVars, out>>

ProcessSample ==
  /\ UNCHANGED unitVars
  /\ pc = "idle"
  /\ DSPProcessSample
  /\ UNCHANGED blockVars

Reset ==
  /\ UNCHANGED unitVars
  /\ pc = "idle"
  /\ \E n \in 1 .. MaxVoice : DSPReset(Len(transitionBuffer), n)
  /\ last' = NoOp("reset")
  /\ UNCHANGED <<blockVars, out>>

Setup ==
  /\ UNCHANGED unitVars
  /\ pc = "idle"
  /\ \E size \in 1 .. MaxTrSize, n \in 1 .. MaxVoice : DSPReset(size, n)
  /\ last' = NoOp("setup")
  /\ UNCHANGED <<blockVars, out>>

SetParameters ==
  /\ UNCHANGED unitVars
  /\ pc = "idle"
  /\ \E n \in 1 .. MaxVoice : nVoice' = n
  /\ last' = NoOp("setParameters")
  /\ UNCHANGED <<notes, isTransitioning, trIndex, trStop, transitionBuffer, blockVars,
                 out, sinceFill>>

Next == NoteOn \/ NoteOff \/ ProcessSample \/ Reset \/ Setup \/ SetParameters

Spec == Init /\ [][Next]_vars

\* ------------------------------------------------------------------------
\* Block rendering: DSPCore::process(length) with the MIDI note queue. Each
\* iteration of the loop in processMidiNote is a step; so is processSample.
\* ------------------------------------------------------------------------
Frames == 0 .. (MaxLength - 1)

PushMidiNote ==
  /\ UNCHANGED unitVars
  /\ pc = "idle"
  /\ Len(midiNotes) < MaxQueue
  /\ \E isNoteOn \in BOOLEAN, frame \in Frames, noteId \in NoteIds,
        velocity \in 1 .. MaxVelocity :
       midiNotes' = Append(midiNotes, [isNoteOn |-> isNoteOn, frame |-> frame,
                                       id |-> noteId, velocity |-> velocity])
  /\ last' = NoOp("pushMidiNote")
  /\ UNCHANGED <<coreVars, pc, frameIdx, length, out, sinceFill>>

ProcessBegin ==
  /\ UNCHANGED unitVars
  /\ pc = "idle"
  /\ \E len \in 1 .. MaxLength : length' = len
  /\ pc' = "midi"
  /\ frameIdx' = 0
  /\ last' = NoOp("process")
  /\ UNCHANGED <<coreVars, midiNotes, out, sinceFill>>

\* (mutant) the last queued event of this frame instead of the first.
FindFrameLast(queue, frame) ==
  LET hits == {k \in 1 .. Len(queue) : queue[k].frame = frame}
  IN IF hits = {} THEN 0 ELSE CHOOSE k \in hits : \A j \in hits : k >= j

\* std::find_if: the first queued event of this frame, 0 when there is none.
FindFrame(queue, frame) ==
  LET hits == {k \in 1 .. Len(queue) : queue[k].frame = frame}
  IN IF hits = {} THEN 0 ELSE CHOOSE k \in hits : \A j \in hits : k <= j

\* (mutant) an erase that leaves the queue as it was.
EraseNone(queue, k) == queue

\* (mutant) an erase that also drops the events queued behind the one erased.
EraseFrom(queue, k) == SubSeq(queue, 1, k - 1)

\* midiNotes.erase(it)
Erase(queue, k) == SubSeq(queue, 1, k - 1) \o SubSeq(queue, k + 1, Len(queue))

\* One iteration of processMidiNote(frameIdx) that finds an event.
MidiDispatch ==
  /\ UNCHANGED unitVars
  /\ pc = "midi"
  /\ LET k == FindFrame(midiNotes, frameIdx)
     IN /\ k # 0
        /\ IF midiNotes[k].isNoteOn
           THEN DSPNoteOn(midiNotes[k].id, midiNotes[k].velocity)
           ELSE DSPNoteOff(midiNotes[k].id)
        /\ midiNotes' = Erase(midiNotes, k)
  /\ UNCHANGED <<pc, frameIdx, length, out>>

\* The iteration of processMidiNote(frameIdx) that finds none and returns.
MidiReturn ==
  /\ UNCHANGED unitVars
  /\ pc = "midi"
  /\ FindFrame(midiNotes, frameIdx) = 0
  /\ pc' = "sample"
  /\ last' = NoOp("processMidiNote")
  /\ UNCHANGED <<coreVars, midiNotes, frameIdx, length, out, sinceFill>>

\* processSample for frame frameIdx, and the loop increment.
SampleStep ==
  /\ UNCHANGED unitVars
  /\ pc = "sample"
  /\ DSPProcessSample
  /\ frameIdx' = frameIdx + 1
  /\ pc' = IF frameIdx + 1 < length THEN "midi" ELSE "idle"
  /\ UNCHANGED <<midiNotes, length>>

\* reset() between blocks, the parameter store unchanged.
ResetBlock ==
  /\ UNCHANGED unitVars
  /\ pc = "idle"
  /\ DSPReset(Len(transitionBuffer), nVoice)
  /\ last' = NoOp("reset")
  /\ UNCHANGED <<blockVars, out>>

\* The block specification renders with the parameter nVoice at 1.
InitBlock == Init /\ nVoice = 1

NextBlock ==
  PushMidiNote \/ ProcessBegin \/ MidiDispatch \/ MidiReturn \/ SampleStep \/ ResetBlock

SpecBlock == InitBlock /\ [][NextBlock]_vars

\* ------------------------------------------------------------------------
\* The delay line on its own.
\* ------------------------------------------------------------------------
InitUnits == Init /\ nVoice = 1 /\ Len(transitionBuffer) = 1

NextDelay == DelaySetup \/ DelayReset \/ DelayProcess

SpecDelay == InitUnits /\ [][NextDelay]_vars

\* ------------------------------------------------------------------------
\* The adaptive notch on its own.
\* ------------------------------------------------------------------------
NextNotch == NotchReset \/ NotchProcess

SpecNotch == InitUnits /\ [][NextNotch]_vars

\* ------------------------------------------------------------------------
\* The fold shaper on its own.
\* ------------------------------------------------------------------------
NextFold ==
  FoldSetParameters \/ FoldProcess \/ FoldReset \/ FoldProcess16 \/ FoldLatency

SpecFold == InitUnits /\ [][NextFold]_vars

\* C16: FoldShaper::latency() returns Fir16FoldUpSample::intDelay, 15 samples,
\* whatever gain, multiply and hardclip are and whatever reset and process16
\* calls came before; the calls other than latency() leave the reported value
\* alone.
C16_LatencyIsIntDelay ==
  /\ intDelay = 15
  /\ fLast.op = "latency" => latencyRet = 15
  /\ latencyRet \in {0, 15}

\* latency() is called with changed settings and with inputs in the filters.
C16_Witness ==
  /\ fLast.op = "latency"
  /\ latencyRet = 15
  /\ foldFilters = 2
  /\ foldGain # FOne
  /\ foldMultiply # FOne
  /\ ~foldHardclip

\* ------------------------------------------------------------------------
\* The state-variable filters on their own.
\* ------------------------------------------------------------------------
NextFilter ==
  SVFReset \/ SVFProcess \/ SVFHighpassReset \/ SVFHighpassPush \/ SVFHighpassProcess

SpecFilter == InitUnits /\ [][NextFilter]_vars

\* ------------------------------------------------------------------------
\* The serial allpass chain on its own.
\* ------------------------------------------------------------------------
NextAllpass ==
  \/ AllpassSetup
  \/ AllpassReset
  \/ AllpassSetTime
  \/ AllpassApplyGain
  \/ AllpassSum
  \/ AllpassProcess

SpecAllpass == InitUnits /\ [][NextAllpass]_vars

RECURSIVE PlainTaps(_, _)
\* tap 1 + tap 2 + ... + tap n, in grid units.
PlainTaps(buffer, n) == IF n = 0 THEN 0 ELSE PlainTaps(buffer, n - 1) + buffer[n].q

RECURSIVE AlternatingTaps(_, _)
\* tap 1 - tap 2 + tap 3 - ... up to tap n, in grid units.
AlternatingTaps(buffer, n) ==
  IF n = 0 THEN 0
  ELSE AlternatingTaps(buffer, n - 1) + (IF n % 2 = 1 THEN buffer[n].q ELSE -buffer[n].q)

\* C19: SerialAllpass::sum(altSignMix) returns the plain sum of the nAllpass
\* taps over 2 nAllpass when altSignMix is 0, the alternating sum over
\* 2 nAllpass when it is 1, and the linear crossfade of the two sums over
\* 2 nAllpass in between (values are rounded towards zero on the grid); the
\* call changes no state of the chain.
C19_SumCrossfade ==
  [][apLast'.op = "sum" /\ (\A i \in Stages : isfinite(serialAllpass.buffer[i])) =>
       LET plain == PlainTaps(serialAllpass.buffer, NAllpass)
           alternating == AlternatingTaps(serialAllpass.buffer, NAllpass)
           t == apLast'.mix.q
       IN /\ serialAllpass' = serialAllpass
          /\ t \in 0 .. FDen
          /\ t = 0 => apLast'.out = Fin(TDiv(plain, 2 * NAllpass))
          /\ t = FDen => apLast'.out = Fin(TDiv(alternating, 2 * NAllpass))
          /\ apLast'.out =
               Fin(TDiv(plain + TDiv(t * (alternating - plain), FDen), 2 * NAllpass))]_vars

\* sum() was called half way between the two sums, on taps that differ and
\* whose two sums give different results.
C19_Witness ==
  /\ apLast.op = "sum"
  /\ apLast.mix = Fin(1)
  /\ \A i \in Stages : isfinite(serialAllpass.buffer[i]) /\ serialAllpass.buffer[i] # Fin(0)
  /\ apLast.out # Fin(0)
  /\ AllpassSumValue(serialAllpass.buffer, Fin(0)) # AllpassSumValue(serialAllpass.buffer, FOne)
  /\ apLast.out # AllpassSumValue(serialAllpass.buffer, Fin(0))
  /\ apLast.out # AllpassSumValue(serialAllpass.buffer, FOne)

\* ------------------------------------------------------------------------
\* A block render that runs to its end: process(length) is straight-line code
\* on one thread, so a step that is enabled inside the call is taken.
\* ------------------------------------------------------------------------
SpecBlockRuns ==
  /\ InitUnits
  /\ [][NextBlock]_vars
  /\ WF_vars(MidiDispatch) /\ WF_vars(MidiReturn) /\ WF_vars(SampleStep)

\* The queued events whose frame is f.
EventsAt(queue, f) == {k \in 1 .. Len(queue) : queue[k].frame = f}

\* C18: DSPCore::process(length) returns. Each iteration of the loop in
\* processMidiNote(frame) that does not return removes exactly one event, an
\* event of that frame, and nothing is queued while process runs, so the
\* loop makes at most one iteration per queued event of the frame; every
\* frame is rendered once and the frame index only grows.
C18_RenderTerminates ==
  /\ (pc # "idle") ~> (pc = "idle")
  /\ [][(pc = "midi" /\ pc' = "midi" =>
           /\ Len(midiNotes') = Len(midiNotes) - 1
           /\ Cardinality(EventsAt(midiNotes', frameIdx)) =
                Cardinality(EventsAt(midiNotes, frameIdx)) - 1
           /\ \A f \in Frames \ {frameIdx} :
                Cardinality(EventsAt(midiNotes', f)) = Cardinality(EventsAt(midiNotes, f))
           /\ frameIdx' = frameIdx)
        /\ (pc = "midi" /\ pc' = "sample" =>
              EventsAt(midiNotes, frameIdx) = {} /\ midiNotes' = midiNotes)
        /\ (pc # "idle" => Len(midiNotes') <= Len(midiNotes) /\ length' = length)
        /\ (pc = "sample" => frameIdx' = frameIdx + 1 /\ frameIdx' <= length)
        /\ (pc = "sample" /\ pc' = "idle" => frameIdx' = length)]_vars

\* A render of MaxLength frames has returned with the queue drained, a
\* noteOn and its noteOff among the events it dispatched.
C18_Witness ==
  /\ pc = "idle"
  /\ last.op = "processSample"
  /\ frameIdx = MaxLength
  /\ length = MaxLength
  /\ midiNotes = <<>>
  /\ notes[0].state = "release"

\* ------------------------------------------------------------------------
\* The GrowlSynth delay line on its own.
\* ------------------------------------------------------------------------
NextLerpDelay == LerpDelaySetup \/ LerpDelayReset \/ LerpDelayProcess

SpecLerpDelay == InitUnits /\ [][NextLerpDelay]_vars

\* The delay in whole samples that a request of timeQ / TimeDen gives.
LerpDelayN == Min(Max(Trunc(gdLast.time), 0), gdLast.size - 1)

\* C21: with the write pointer inside the buffer and a whole number of
\* samples N requested, process returns the input written N calls earlier
\* (the input of the same call for N = 0, zero when fewer than N + 1 inputs
\* were written since the last reset), a request below 0 or above
\* capacity - 1 being clamped to that range.
C21_LerpRoundTrip ==
  gdLast.op = "process" /\ gdLast.wptr < gdLast.size /\ gdLast.time % TimeDen = 0 =>
    LET expected == IF LerpDelayN + 1 <= Len(gdHist) THEN gdHist[LerpDelayN + 1] ELSE 0
    IN /\ gdLast.timeInt = LerpDelayN
       /\ expected # -1 => gdLast.out = TimeDen * expected

\* An input comes back after capacity - 1 calls, the write pointer having
\* wrapped, with a request above capacity - 1.
C21_Witness ==
  /\ gdLast.op = "process"
  /\ gdLast.size = 3
  /\ gdLast.time = 4 * TimeDen
  /\ gdLast.wptr = 0
  /\ Len(gdHist) = 3
  /\ gdHist[3] = 1 /\ gdHist[2] = 0 /\ gdHist[1] = 0
  /\ gdLast.out = TimeDen

\* C22: in every call of process the indices wptr, rptr0 and rptr1 are
\* inside [0, buf.size()).
C22_IndicesInRange ==
  gdLast.op = "process" =>
    /\ gdLast.wptr \in 0 .. (gdLast.size - 1)
    /\ gdLast.rptr0 \in 0 .. (gdLast.size - 1)
    /\ gdLast.rptr1 \in 0 .. (gdLast.size - 1)

\* ------------------------------------------------------------------------
\* The ADSR envelope on its own.
\* ------------------------------------------------------------------------
NextAdsr == AdsrReset \/ AdsrNoteOn \/ AdsrNoteOff \/ AdsrProcess

SpecAdsr == InitUnits /\ [][NextAdsr]_vars

\* ------------------------------------------------------------------------
\* The rate limiter on its own.
\* ------------------------------------------------------------------------
NextLimiter == LimiterReset \/ LimiterProcess

SpecLimiter == InitUnits /\ [][NextLimiter]_vars

\* ------------------------------------------------------------------------
\* The noise generators on their own.
\* ------------------------------------------------------------------------
NextNoise == WhiteSetSeed \/ WhiteProcess

SpecNoise == InitUnits /\ [][NextNoise]_vars

RECURSIVE LcgIter(_, _)
\* The seed after n steps of the recurrence.
LcgIter(seed, n) == IF n = 0 THEN seed ELSE LcgIter(Lcg(seed), n - 1)

\* C17: generators that were given the same seed and have made the same
\* number of process() calls hold the same 16 lanes: lane idx holds the seed
\* advanced idx + calls times by seed := 1664525 seed + 1013904223 modulo
\* 2^32. A call on one generator changes no other generator.
C17_ReproducibleNoise ==
  [][/\ \A g \in Gens : \A idx \in 1 .. NLanes :
          /\ white'[g].buffer[idx] = LcgIter(white'[g].seed, idx + white'[g].calls)
          /\ white'[g].buffer[idx].hi \in 0 .. (Half - 1)
          /\ white'[g].buffer[idx].lo \in 0 .. (Half - 1)
     /\ \A g, h \in Gens :
          white'[g].seed = white'[h].seed /\ white'[g].calls = white'[h].calls =>
            white'[g].buffer = white'[h].buffer
     /\ wLast'.op = "process" =>
          \A idx \in 1 .. NLanes :
            white'[wLast'.gen].buffer[idx] = Lcg(white[wLast'.gen].buffer[idx])
     /\ wLast'.op \in {"setSeed", "process"} =>
          \A h \in Gens \ {wLast'.gen} : white'[h] = white[h]]_vars

\* Two generators re-seeded with 1 after two process() calls each. The
\* recurrence started at 0 gives 3C6EF35F, 47502932, D1CCF6E9; started at 1
\* it gives 3C88596C.
C17_Witness ==
  /\ wLast.op = "process"
  /\ white[1].seed = U32(0, 1) /\ white[2].seed = U32(0, 1)
  /\ white[1].calls = 2 /\ white[2].calls = 2
  /\ white[1].buffer = white[2].buffer
  /\ white[1].buffer[1] = LcgIter(U32(0, 1), 3)
  /\ LcgIter(U32(0, 1), 1) = U32(15496, 22892)
  /\ LcgIter(U32(0, 0), 3) = U32(53708, 63209)
  /\ LcgIter(U32(0, 0), 1) = U32(15470, 62303)
  /\ LcgIter(U32(0, 0), 2) = U32(18256, 10546)

\* ------------------------------------------------------------------------
\* The pool with one voice in use, rendering for ever: the host keeps calling
\* process, so processSample is taken again and again.
NextOneVoice ==
  /\ Next
  /\ nVoice' = 1
  /\ Len(transitionBuffer') = 1

SpecRender == InitUnits /\ [][NextOneVoice]_vars /\ WF_vars(ProcessSample)

\* ------------------------------------------------------------------------
\* The envelope on its own.
\* ------------------------------------------------------------------------
NextExpEnv ==
  ExpDSRSetTime \/ ExpDSRReset \/ ExpDSRTrigger \/ ExpDSRRelease \/ ExpDSRProcess

\* The decay-sustain-release envelope on its own.
SpecExpEnv == InitUnits /\ [][NextExpEnv]_vars

\* ------------------------------------------------------------------------
\* Every component, one exercised per behaviour: a component takes steps
\* while the others are as constructed. The pool renders with one voice.
\* ------------------------------------------------------------------------
NextComponents ==
  \/ /\ InitDelay /\ InitNotch /\ InitFilter /\ InitExpEnv /\ InitAllpass
     /\ Next
     /\ nVoice' = 1
     /\ Len(transitionBuffer') = 1
  \/ InitPool /\ InitNotch /\ InitFilter /\ InitExpEnv /\ InitAllpass /\ NextDelay
  \/ InitPool /\ InitDelay /\ InitFilter /\ InitExpEnv /\ InitAllpass /\ NextNotch
  \/ InitPool /\ InitDelay /\ InitNotch /\ InitExpEnv /\ InitAllpass /\ (SVFReset \/ SVFProcess)
  \/ InitPool /\ InitDelay /\ InitNotch /\ InitFilter /\ InitAllpass /\ NextExpEnv
  \/ InitPool /\ InitDelay /\ InitNotch /\ InitFilter /\ InitExpEnv /\ NextAllpass

SpecComponents == InitUnits /\ [][NextComponents]_vars

\* ------------------------------------------------------------------------
\* Claims
\* ------------------------------------------------------------------------
NonAttacking(ns, n) == {v \in 0 .. (n - 1) : ~isAttacking(ns[v])}

\* C1: when noteOn steals (no voice below nVoice is at rest or holds the new
\* id), the voice that receives the note is a non-attacking voice of minimal
\* getGain() among the non-attacking voices, whenever one exists; an
\* attacking voice is taken only when all nVoice voices are attacking.
C1_StealQuietestNonAttacking ==
  [][(last'.op = "noteOn" /\ last'.steal) =>
       LET cand == NonAttacking(notes, nVoice)
       IN cand # {} =>
            /\ last'.index \in cand
            /\ \A w \in cand : getGain(notes[last'.index]) <= getGain(notes[w])]_vars

\* C2: the lifecycle is active -> release -> rest. A voice that is active has
\* its gain envelope in attack or decay; processSample puts a voice to rest
\* only from release; release is entered only by noteOff and active only by
\* noteOn.
C2_Lifecycle ==
  /\ [](\A v \in Voices :
          notes[v].state = "active" => notes[v].gainEnvelope.state \in {"attack", "decay"})
  /\ [][\A v \in Voices :
          /\ (last'.op = "processSample" /\ notes'[v].state = "rest"
                /\ notes[v].state # "rest") => notes[v].state = "release"
          /\ (notes'[v].state = "release" /\ notes[v].state # "release")
                => last'.op = "noteOff"
          /\ (notes'[v].state = "active" /\ notes[v].state # "active")
                => last'.op = "noteOn"]_vars

\* A released voice was put to rest by processSample while another voice,
\* never released, is still active.
C2_Witness ==
  /\ last.op = "processSample"
  /\ \E v, w \in Voices :
       /\ notes[v].state = "rest" /\ notes[v].gainEnvelope.state = "terminated"
       /\ notes[v].id >= 0
       /\ notes[w].state = "active" /\ notes[w].gainEnvelope.state = "decay"

\* C3: a voice at rest has note id -1, and a voice with a non-negative id is
\* active or releasing.
C3_RestIsFree ==
  \A v \in Voices :
    /\ notes[v].state = "rest" => notes[v].id = -1
    /\ notes[v].id >= 0 => notes[v].state \in {"active", "release"}

\* C4: in process(length) every queued event of frame i is dispatched, once,
\* and leaves the queue before sample i is synthesized: an iteration of
\* processMidiNote removes exactly the earliest pushed event of the current
\* frame and dispatches it as what it is; sample i is synthesized only when
\* no event of frame i is left; the frame index never goes back in a block.
C4_SampleAccurateDispatch ==
  /\ [](pc = "sample" => \A k \in 1 .. Len(midiNotes) : midiNotes[k].frame # frameIdx)
  /\ [][(pc = "midi" /\ pc' = "midi") =>
          \E k \in 1 .. Len(midiNotes) :
            /\ midiNotes[k].frame = frameIdx
            /\ \A j \in 1 .. (k - 1) : midiNotes[j].frame # frameIdx
            /\ Len(midiNotes') = Len(midiNotes) - 1
            /\ \A j \in 1 .. Len(midiNotes') :
                 midiNotes'[j] = IF j < k THEN midiNotes[j] ELSE midiNotes[j + 1]
            /\ last'.op = IF midiNotes[k].isNoteOn THEN "noteOn" ELSE "noteOff"
            /\ frameIdx' = frameIdx]_vars
  /\ [][pc = "sample" =>
          /\ last'.op = "processSample" /\ midiNotes' = midiNotes
          /\ frameIdx' = frameIdx + 1]_vars
  /\ [][pc' = "sample" => (pc = "midi" /\ frameIdx' = frameIdx /\ midiNotes' = midiNotes)]_vars

\* Two events share the current frame: the first was just dispatched, the
\* second is still queued.
C4_Witness ==
  /\ pc = "midi"
  /\ last.op \in {"noteOn", "noteOff"}
  /\ \E k \in 1 .. Len(midiNotes) : midiNotes[k].frame = frameIdx
  /\ frameIdx > 0

\* C5: a steal renders the tail of the stolen voice into the transition
\* buffer before the voice is overwritten and sets isTransitioning; the
\* buffer is mixed into the output of the processSample calls that follow;
\* without another steal isTransitioning is false again after at most
\* transitionBuffer.size() processSample calls.
C5_CrossfadeBounded ==
  /\ [](isTransitioning => sinceFill < Len(transitionBuffer))
  /\ [][(last'.op = "noteOn" /\ last'.steal) =>
          /\ isTransitioning'
          /\ sinceFill' = 0
          /\ transitionBuffer'[trIndex + 1]
               = Mix(transitionBuffer[trIndex + 1], NoteProcessOut(notes[last'.index]))]_vars
  /\ [][(last'.op = "processSample" /\ isTransitioning) =>
          (transitionBuffer[trIndex + 1] # 0 => out' # 0)]_vars

\* A crossfade in a buffer of size 1 has ended after one processSample call
\* that played the stolen voice's tail.
C5_Witness ==
  /\ last.op = "processSample"
  /\ ~isTransitioning
  /\ sinceFill = 1
  /\ Len(transitionBuffer) = 1
  /\ out # 0

\* A crossfade in a larger buffer, started at a non-zero trIndex, has ended.
C5_WitnessWrap ==
  /\ last.op = "processSample"
  /\ ~isTransitioning
  /\ sinceFill >= 1
  /\ Len(transitionBuffer) > 1
  /\ trStop # Len(transitionBuffer) - 1


\* C6: after setup, every process() call uses an integer read offset inside
\* [1, capacity - 4], and the write index and the four read indices are
\* inside [0, capacity), for every capacity including 4.
C6_ReadOffsetInRange ==
  dLast.op = "process" =>
    /\ 1 <= dLast.timeInt /\ dLast.timeInt <= Len(dBuf) - 4
    /\ 0 <= dWptr /\ dWptr < Len(dBuf)
    /\ \A k \in 1 .. 4 : 0 <= dLast.rptr[k] /\ dLast.rptr[k] < Len(dBuf)

\* The integer N of a call whose timeInSamples is a whole number of samples.
DelayN == dLast.time \div TimeDen

DelayUnclamped ==
  /\ dLast.op = "process"
  /\ dLast.time % TimeDen = 0
  /\ 1 <= DelayN - 1 /\ DelayN - 1 <= Len(dBuf) - 4

\* C7: with an integer timeInSamples = N that is not clamped, the output of
\* a call is the input written N calls earlier (0 when the buffer was reset
\* less than N calls ago); an impulse therefore comes out, as 1, exactly N
\* calls after it went in, also across the wrap of the write pointer.
C7_RoundTrip ==
  DelayUnclamped =>
    dLast.out = OutScale * (IF DelayN + 1 <= Len(dHist) THEN dHist[DelayN + 1] ELSE 0)

\* An impulse written N calls ago, alone in the history, is read back as 1
\* through a read index that wrapped around the end of the buffer.
C7_Witness ==
  /\ DelayUnclamped
  /\ DelayN + 1 <= Len(dHist)
  /\ \A k \in 1 .. Len(dHist) : dHist[k] = (IF k = DelayN + 1 THEN 1 ELSE 0)
  /\ dLast.out = OutScale
  /\ dLast.rptr[2] > dWptr
  /\ Len(dHist) > Len(dBuf)

\* C8: the integer part of the clamped read position selects the samples and
\* its fractional part is the argument of lagrange3Interp.
C8_FractionalRead ==
  dLast.op = "process" =>
    /\ dLast.timeInt = Trunc(dLast.pos)
    /\ dLast.fraction = dLast.pos - Trunc(dLast.pos) * TimeDen

\* C9: after reset() and after every process() call, for every input value,
\* the tracked coefficient satisfies -2 <= alpha <= 2.
C9_AlphaBounded ==
  nLast.op \in {"reset", "process"} =>
    FGe(alpha, FNeg(NotchBound)) /\ FGe(NotchBound, alpha)

\* C10: every value FoldShaper::process returns lies in [-1024, 1024], and it
\* is exactly 0 when the shaped value is an infinity or NaN.
C10_SafeClipBounded ==
  fLast.op = "process" =>
    /\ isfinite(fLast.out)
    /\ Abs(fLast.out.q) <= SafeClipBound * FDen
    /\ ~isfinite(fLast.shaped) => fLast.out = Fin(0)

\* A call whose shaped value is NaN returns 0.
C10_Witness ==
  /\ fLast.op = "process"
  /\ isfinite(fLast.x0)
  /\ isnan(fLast.shaped)
  /\ fLast.out = Fin(0)

\* A call whose shaped value is finite and above 1024 returns 1024.
C10_WitnessClip ==
  /\ fLast.op = "process"
  /\ isfinite(fLast.shaped)
  /\ fLast.shaped.q > SafeClipBound * FDen
  /\ fLast.out = Fin(SafeClipBound * FDen)

\* C11: every entry point that takes a cutoff and a Q divides by a Q that was
\* brought into a safe range: no call divides by zero, and the coefficient
\* k = 1/Q it computes is finite.
C11_NoDivisionByZero ==
  filtLast.op \in {"SVF::process", "SVFHighpass::reset", "SVFHighpass::push"} =>
    filtLast.Q # Fin(0) /\ isfinite(filtLast.k)

\* The pool as reset() leaves it.
Quiet ==
  /\ \A v \in Voices : notes[v].state = "rest" /\ notes[v].id = -1
  /\ ~isTransitioning
  /\ trIndex = 0
  /\ trStop = 0
  /\ transitionBuffer = Silence(Len(transitionBuffer))

\* C12: right after reset() every voice is at rest with id -1, nothing is
\* transitioning, trIndex = trStop = 0 and the transition buffer is zero; from
\* such a state every sample process() renders is 0 and the state stays so
\* until a noteOn is dispatched.
C12_ResetZerosState ==
  [][/\ last'.op = "reset" => Quiet'
     /\ Quiet /\ pc = "sample" => out' = 0 /\ Quiet'
     /\ Quiet /\ ~Quiet' => last'.op = "noteOn"]_vars

\* A silent sample rendered after a reset of a pool whose voice 0 had been
\* playing (reset keeps the velocity and clears the id).
C12_Witness ==
  /\ Quiet
  /\ notes[0].velocity > 0
  /\ last.op = "processSample"
  /\ out = 0
  /\ midiNotes = <<>>

\* C13: reset() is idempotent on Delay, AdaptiveNotchCPZ, SerialAllpass,
\* ExpDSREnvelope, SVF and DSPCore (with its Notes and their ADSREnvelopes,
\* the parameter store unchanged): a reset() that follows a reset() changes
\* nothing of the component's state.
C13_ResetIdempotent ==
  [][/\ dLast.op = "reset" /\ dLast'.op = "reset" => UNCHANGED <<dBuf, dWptr>>
     /\ nLast.op = "reset" /\ nLast'.op = "reset" => UNCHANGED <<alpha, v1, v2>>
     /\ apLast.op = "reset" /\ apLast'.op = "reset" => UNCHANGED serialAllpass
     /\ eLast.op = "reset" /\ eLast'.op = "reset" => UNCHANGED expDSR
     /\ filtLast.op = "SVF::reset" /\ filtLast'.op = "SVF::reset" => UNCHANGED svf
     /\ last.op = "reset" /\ last'.op = "reset" /\ nVoice' = nVoice => UNCHANGED coreVars]_vars

\* An allpass chain that has processed samples (its write pointers moved),
\* then reset.
C13_Witness ==
  /\ apLast.op = "reset"
  /\ apLast.calls > 0
  /\ \A i \in Stages : serialAllpass.delay[i].wptr > 0
  /\ serialAllpass = AllpassResetState(serialAllpass)

C15_NoStealWhileFree ==
  [][last'.op = "noteOn" /\ (\E v \in 0 .. (nVoice - 1) : notes[v].state = "rest") =>
       LET p == last'.index
           id == notes'[p].id
       IN /\ p \in 0 .. (nVoice - 1)
          /\ notes[p].state = "rest" \/ notes[p].id = id
          /\ \A v \in 0 .. (p - 1) : notes[v].state # "rest" /\ notes[v].id # id
          /\ notes'[p].state = "active"
          /\ ~last'.steal
          /\ UNCHANGED <<isTransitioning, trStop, transitionBuffer>>
          /\ \A v \in Voices \ {p} : notes'[v] = notes[v]]_vars

\* The second voice taken for a new note while the first one is playing.
C15_Witness ==
  /\ last.op = "noteOn"
  /\ ~last.steal
  /\ last.index = 1
  /\ notes[0].state = "active"
  /\ notes[1].state = "active"
  /\ notes[0].id # notes[1].id

C23_TransitionBufferClean ==
  ~isTransitioning => \A k \in 1 .. Len(transitionBuffer) : transitionBuffer[k] = 0

\* C24: when noteOn gives the new note to a voice that is active or in
\* release, the tail of that voice was rendered into the transition buffer
\* by fillTransitionBuffer in the same call: isTransitioning is set, trStop
\* is the slot before trIndex and the buffer received the voice's samples.
C24_SoundingVoiceIsFaded ==
  [][last'.op = "noteOn" /\ notes[last'.index].state \in {"active", "release"} =>
       /\ isTransitioning'
       /\ trStop' = TrStopAfterFill(trIndex, Len(transitionBuffer))
       /\ transitionBuffer' =
            FillLoop(notes[last'.index], transitionBuffer, trIndex, 0)]_vars

\* C25: no two voices that are active or in release hold the same note id.
C25_SoundingIdsUnique ==
  \A v, w \in Voices :
    (v # w /\ notes[v].state # "rest" /\ notes[w].state # "rest") => notes[v].id # notes[w].id

\* The queued events, in queue order, whose frame is at least f.
EventsFrom(queue, f) == LET Later(e) == e.frame >= f IN SelectSeq(queue, Later)

\* C26: when process(length) returns no event with frame < length is queued;
\* the events with frame >= length stay queued, unchanged and in their
\* order, through every step of the block; an event is dispatched only at
\* its frame index inside a block longer than its frame; reset() leaves the
\* queue as it is.
C26_QueueAcrossBlocks ==
  /\ [](pc # "idle" => \A k \in 1 .. Len(midiNotes) : midiNotes[k].frame >= frameIdx)
  /\ [](pc = "idle" /\ last.op = "processSample" =>
          \A k \in 1 .. Len(midiNotes) : midiNotes[k].frame >= length)
  /\ [][pc # "idle" =>
          /\ EventsFrom(midiNotes', length) = EventsFrom(midiNotes, length)
          /\ EventsFrom(midiNotes', frameIdx + 1) = EventsFrom(midiNotes, frameIdx + 1)
          /\ (Len(midiNotes') # Len(midiNotes) =>
                /\ frameIdx < length
                /\ Len(EventsFrom(midiNotes', frameIdx)) =
                     Len(EventsFrom(midiNotes, frameIdx)) - 1)]_vars
  /\ [][last'.op = "reset" => midiNotes' = midiNotes]_vars

\* A block of one frame has returned: it dispatched the noteOn of frame 0 and
\* left the two events of frame 1, a noteOff before a noteOn, in the queue.
C26_Witness ==
  /\ pc = "idle"
  /\ last.op = "processSample"
  /\ length = 1
  /\ notes[0].state = "active"
  /\ Len(midiNotes) = 2
  /\ midiNotes[1].frame = 1 /\ ~midiNotes[1].isNoteOn
  /\ midiNotes[2].frame = 1 /\ midiNotes[2].isNoteOn

\* C27: after noteOn(attackSamples) and without noteOff the envelope is
\* attacking during the first max(1, attackSamples) process() calls and in
\* decay from then on; process() changes the state only from attack to
\* decay and from release, with the smoothed value at or below epsilon, to
\* terminated; release is entered only by noteOff(), attack only by noteOn(),
\* and terminated otherwise only by reset(); a noteOff() right after noteOn()
\* makes the next process() call terminate the envelope.
C27_AdsrStateMachine ==
  /\ [](aLast.on /\ ~aLast.off =>
          LET n == Max(1, adsr.attackLength)
          IN /\ aLast.calls < n => adsr.state = "attack"
             /\ aLast.calls >= n => adsr.state = "decay")
  /\ [][adsr'.state # adsr.state =>
          \/ aLast'.op = "process" /\ adsr.state = "attack" /\ adsr'.state = "decay"
          \/ /\ aLast'.op = "process" /\ adsr.state = "release" /\ adsr'.state = "terminated"
             /\ adsr.v2 <= EnvEps
          \/ aLast'.op = "noteOff" /\ adsr'.state = "release"
          \/ aLast'.op = "noteOn" /\ adsr'.state = "attack"
          \/ aLast'.op = "reset" /\ adsr'.state = "terminated"]_vars
  /\ [][aLast'.op = "noteOff" => adsr'.state = "release"]_vars
  /\ [][aLast'.op = "process" /\ aLast.op = "noteOff" /\ aLast.on /\ aLast.calls = 0 =>
          adsr'.state = "terminated"]_vars

\* An attack of MaxAttack samples has just ended: the last of MaxAttack
\* process() calls moved the envelope to decay.
C27_Witness ==
  /\ aLast.op = "process"
  /\ aLast.on /\ ~aLast.off
  /\ adsr.attackLength = MaxAttack
  /\ aLast.calls = MaxAttack
  /\ adsr.state = "decay"

\* C28: every notch index idx that SerialAllpass::process uses in
\* notch[idx], that is every idx below the argument nNotch, is below
\* nAdaptiveNotch.
C28_NotchIndexInRange ==
  apLast.op = "process" => \A idx \in 0 .. (apLast.nNotch - 1) : idx < NAdaptiveNotch

\* ceil(a / b) for a >= 0 and b > 0.
CeilDiv(a, b) == (a + b - 1) \div b

\* C29: with rate > 0 a process(target, rate) call changes the value by at
\* most rate, leaves it on the side of the target where it was, and returns
\* the target exactly when the distance was at most rate; after a run of n
\* calls with one target and one rate, begun at the value v, the value is
\* the target when n >= ceil(|target - v| / rate) and v moved n * rate
\* towards the target before that.
C29_RateLimited ==
  rLast.op = "process" /\ rLast.rate > 0 =>
    LET d == rLast.target - rLast.before
        whole == rLast.target - rLast.start
        n == CeilDiv(Abs(whole), rLast.rate)
    IN /\ Abs(limiterValue - rLast.before) <= rLast.rate
       /\ d >= 0 => (rLast.before <= limiterValue /\ limiterValue <= rLast.target)
       /\ d <= 0 => (rLast.target <= limiterValue /\ limiterValue <= rLast.before)
       /\ Abs(d) <= rLast.rate <=> limiterValue = rLast.target
       /\ rLast.run >= n => limiterValue = rLast.target
       /\ rLast.run < n =>
            limiterValue = rLast.start + rLast.run * rLast.rate * (IF whole < 0 THEN -1 ELSE 1)

\* The value has reached a target 2 * MaxLimiterValue away with a rate that
\* does not divide the distance, in ceil(distance / rate) calls.
C29_Witness ==
  /\ rLast.op = "process"
  /\ rLast.rate = 3
  /\ rLast.start = MaxLimiterValue
  /\ rLast.target = 0 - MaxLimiterValue
  /\ rLast.run = CeilDiv(2 * MaxLimiterValue, 3)
  /\ rLast.before # rLast.target
  /\ limiterValue = rLast.target

\* C30: after trigger(sustainLevel), with the coefficients and the sustain
\* level in [0, 1], a value returned by process() is within [0, 1] and not
\* above the value process() returned before it since that trigger, a
\* release() in between included; and once release() was called the envelope
\* is in the release state until the next trigger().
C30_NeverRises ==
  /\ eLast.trig /\ eLast.op = "process" =>
       /\ FGe(eLast.out, Fin(0))
       /\ FGe(FOne, eLast.out)
       /\ FGe(eLast.prev, eLast.out)
  /\ eLast.trig /\ eLast.rel => expDSR.state = "release"

\* process() returned the sustain level, release() dropped the offset, and
\* the next process() returned less.
C30_Witness ==
  /\ eLast.op = "process"
  /\ eLast.rel
  /\ expDSR.state = "release"
  /\ eLast.prev = Fin(1)
  /\ FLt(eLast.out, eLast.prev)

====
